---- MODULE Spec2Model ----
(***************************************************************************)
(* The Millionth Dollar Homepage server (server/src/index.ts): the         *)
(* in-memory grid store, the ad placement ledger, the image store, the     *)
(* revenue counters and the x402 payment gate in front of the paid routes. *)
(* And the ad agent (agent/src/index.ts): its rounds, its reasoning loop,  *)
(* its tools and its placement history; the reasoning service and the      *)
(* server are the agent's environment and answer its calls.                *)
(*                                                                         *)
(* Conventions                                                             *)
(*  - A JavaScript number v is the integer v * Unit ("ticks"), so that     *)
(*    non-integer numbers such as 0.5 are values of the model.             *)
(*  - A JavaScript string is a sequence of one-character strings.          *)
(*  - Money is counted in units of $0.0001 (the price of one pixel).       *)
(*  - Date.now() timestamps are written but never read by any handler;     *)
(*    they are not part of the state.  The ids built from Date.now() and   *)
(*    Math.random() are modelled as fresh ids.                             *)
(***************************************************************************)
EXTENDS Integers, Sequences, FiniteSets, TLC

\* ------------------------------------------------------------------------
\* JavaScript values
\* ------------------------------------------------------------------------

\* Ticks per 1: the number v is represented by v * Unit.
Unit == 2

Num(n) == [num |-> n]
\* the integer k
Whole(k) == Num(k * Unit)
\* k + 1/Unit, a number that is not an integer
Frac(k) == Num(k * Unit + 1)
Str(s) == [str |-> s]
Undefined == [undef |-> TRUE]
NaN == [nan |-> TRUE]

\* typeof v === "number"
IsNumber(v) == "num" \in DOMAIN v
\* typeof v === "string"
IsString(v) == "str" \in DOMAIN v
\* the truthiness !v tests
Truthy(v) ==
    IF IsString(v) THEN Len(v.str) > 0
    ELSE IF IsNumber(v) THEN v.num # 0
    ELSE FALSE
\* v || d
OrElse(v, d) == IF Truthy(v) THEN v ELSE d

IsIntegerTicks(n) == n % Unit = 0

\* ------------------------------------------------------------------------
\* Bounds of the model
\* ------------------------------------------------------------------------

\* placements accepted in one behaviour
MaxAds == 2
\* images generated in one behaviour
MaxImages == 1

\* ------------------------------------------------------------------------
\* Program constants
\* ------------------------------------------------------------------------

CANVAS_WIDTH == 1000
CANVAS_HEIGHT == 1000
\* "$0.0001", in units of $0.0001
PIXEL_PRICE == 1

ANONYMOUS == Str(<<"a", "n", "o", "n", "y", "m", "o", "u", "s">>)
\* "#AD0000", the placeholder color of ad pixels
AD_COLOR == Str(<<"#", "A", "D", "0", "0", "0", "0">>)

\* ------------------------------------------------------------------------
\* Colors
\* ------------------------------------------------------------------------

HexDigits ==
    {"0", "1", "2", "3", "4", "5", "6", "7", "8", "9",
     "A", "B", "C", "D", "E", "F", "a", "b", "c", "d", "e", "f"}

\* /^#[0-9A-Fa-f]{6}$/.test(s)
MatchesHexColor(s) ==
    /\ Len(s) = 7
    /\ s[1] = "#"
    /\ \A i \in 2..7 : s[i] \in HexDigits

\* String.prototype.toUpperCase on the characters a color can hold
UpperChar(c) ==
    CASE c = "a" -> "A" [] c = "b" -> "B" [] c = "c" -> "C"
      [] c = "d" -> "D" [] c = "e" -> "E" [] c = "f" -> "F"
      [] OTHER -> c
ToUpperCase(s) == [i \in 1..Len(s) |-> UpperChar(s[i])]

\* ------------------------------------------------------------------------
\* State
\* ------------------------------------------------------------------------

VARIABLES
    canvas,            \* Map<string, PixelData>: key <<x, y>> (ticks) -> cell
    adPlacements,      \* AdPlacement[]
    generatedImages,   \* the keys of Map<string, GeneratedImage>
    totalRevenue,      \* in units of $0.0001
    totalPixelsSold,
    inflight,          \* connection -> the HTTP exchange on it
    lastWrite,         \* history: key -> the accepted request that last wrote it
    currentRound,      \* agent: let currentRound
    placedAdsHistory,  \* agent: PlacedAd[]
    lastGeneratedAd,   \* agent: { brand, style, size } | null
    conversationHistory, \* agent: the messages of the round
    systemPrompt,      \* agent: the recent-ads context of the round's system prompt
    pc,                \* agent: the await runAgentLoop stands at
    toolUseBlocks,     \* agent: the tool_use blocks of the last response
    toolResults,       \* agent: the results collected for them so far
    call,              \* agent: the HTTP call of the tool that runs, or ran last
    executed,          \* history: the ids of the blocks processToolCall was called for
    lastError,         \* history: the last "[LLM] Error" the loop has logged
    outstanding,       \* history: the external requests sent and not yet answered
    generatedAds       \* history: image handle -> the ad generateAdImage made it for

\* the state of the server
serverVars == <<canvas, adPlacements, generatedImages, totalRevenue, totalPixelsSold,
                inflight, lastWrite>>

\* the state of the agent
agentVars == <<currentRound, placedAdsHistory, lastGeneratedAd, conversationHistory,
               systemPrompt, pc, toolUseBlocks, toolResults, call, executed,
               lastError, outstanding, generatedAds>>

vars == <<serverVars, agentVars>>

store == <<canvas, adPlacements, generatedImages, totalRevenue, totalPixelsSold>>

\* `${x},${y}`: the decimal strings of two numbers, injective on numbers
Key(x, y) == <<x, y>>

Idle == [stage |-> "idle"]

\* ------------------------------------------------------------------------
\* x402 payment middleware configuration
\* ------------------------------------------------------------------------

\* mutant of PaidRoutes: the route table misses the POST /ad entry
PaidRoutes_WithoutAd == {"POST /pixel"}

\* the routes of the paymentMiddleware route table
PaidRoutes == {"POST /pixel", "POST /ad"}

\* the price the route table fixes for a paid route
RoutePrice(route) == PIXEL_PRICE

\* the request has passed every middleware in front of the route handlers:
\* the gate called next() after a valid payment, or the route is not gated
ReachesHandler(e) ==
    \/ e.stage = "paid"
    \/ e.stage = "sent" /\ e.req.route \notin PaidRoutes

Respond(c, status, body) ==
    inflight' = [inflight EXCEPT ![c] =
        [@ EXCEPT !.stage = "responded", !.res = [status |-> status, body |-> body]]]

ErrorBody(msg) == [error |-> msg]

\* ------------------------------------------------------------------------
\* POST /pixel
\* ------------------------------------------------------------------------

\* mutant of PixelError: the upper bounds are tested with > instead of >=
PixelError_OffByOne(b) ==
    IF ~IsNumber(b.x) \/ ~IsNumber(b.y)
    THEN "x and y must be numbers"
    ELSE IF \/ b.x.num < 0 \/ b.x.num > CANVAS_WIDTH * Unit
            \/ b.y.num < 0 \/ b.y.num > CANVAS_HEIGHT * Unit
    THEN "Coordinates must be within (0-999, 0-999)"
    ELSE IF ~IsString(b.color) \/ ~MatchesHexColor(b.color.str)
    THEN "Color must be a valid hex color (e.g., #FF0000)"
    ELSE ""

\* the validation of POST /pixel: the error message of the first failing
\* check, "" when every check passes
PixelError(b) ==
    IF ~IsNumber(b.x) \/ ~IsNumber(b.y)
    THEN "x and y must be numbers"
    ELSE IF \/ b.x.num < 0 \/ b.x.num >= CANVAS_WIDTH * Unit
            \/ b.y.num < 0 \/ b.y.num >= CANVAS_HEIGHT * Unit
    THEN "Coordinates must be within (0-999, 0-999)"
    ELSE IF ~IsString(b.color) \/ ~MatchesHexColor(b.color.str)
    THEN "Color must be a valid hex color (e.g., #FF0000)"
    ELSE ""

\* the PixelData POST /pixel stores
PixelCell(b) ==
    [color |-> Str(ToUpperCase(b.color.str)),
     owner |-> OrElse(b.owner, ANONYMOUS),
     url   |-> b.url,
     adId  |-> Undefined]

\* mutant of WasEmpty: every write counts as a first paint
WasEmpty_AlwaysNew(cv, key) == TRUE

\* !canvas.has(key)
WasEmpty(cv, key) == key \notin DOMAIN cv

\* mutant of CanvasSet: a cell that is already painted keeps its content
CanvasSet_KeepFirst(cv, keys, cell) ==
    [k \in DOMAIN cv \cup keys |-> IF k \in DOMAIN cv THEN cv[k] ELSE cell]

\* canvas.set(key, cell) for every key of keys
CanvasSet(cv, keys, cell) ==
    [k \in DOMAIN cv \cup keys |-> IF k \in keys THEN cell ELSE cv[k]]

\* the history kept for the last-write properties
Record(lw, keys, route, b) ==
    [k \in DOMAIN lw \cup keys |->
        IF k \in keys THEN [route |-> route, body |-> b] ELSE lw[k]]

PostPixel(c) ==
    LET e == inflight[c]
        b == e.req.body
        err == PixelError(b)
        key == Key(b.x.num, b.y.num)
        wasEmpty == WasEmpty(canvas, key)
        sold == IF wasEmpty THEN totalPixelsSold + 1 ELSE totalPixelsSold
    IN
    /\ e.stage \in {"sent", "paid"}
    /\ e.req.route = "POST /pixel"
    /\ ReachesHandler(e)
    /\ IF err # ""
       THEN /\ Respond(c, 400, ErrorBody(err))
            /\ UNCHANGED <<store, lastWrite>>
       ELSE /\ canvas' = CanvasSet(canvas, {key}, PixelCell(b))
            /\ totalPixelsSold' = sold
            /\ totalRevenue' = IF wasEmpty THEN totalRevenue + PIXEL_PRICE
                                           ELSE totalRevenue
            /\ lastWrite' = Record(lastWrite, {key}, "POST /pixel", b)
            /\ Respond(c, 200,
                 [success |-> TRUE, x |-> b.x, y |-> b.y,
                  color |-> Str(ToUpperCase(b.color.str)),
                  owner |-> OrElse(b.owner, ANONYMOUS),
                  url |-> b.url, cost |-> PIXEL_PRICE,
                  totalPixelsSold |-> sold])
            /\ UNCHANGED <<adPlacements, generatedImages>>
    /\ UNCHANGED agentVars

\* ------------------------------------------------------------------------
\* POST /ad
\* ------------------------------------------------------------------------

\* mutant of AdError: the maximum size is tested before the multiples of 10
AdError_MaxBeforeMultiple(b, images) ==
    IF ~IsNumber(b.x) \/ ~IsNumber(b.y) \/ ~IsNumber(b.width) \/ ~IsNumber(b.height)
    THEN "x, y, width, and height must be numbers"
    ELSE IF b.width.num < 10 * Unit \/ b.height.num < 10 * Unit
    THEN "Minimum ad size is 10x10 pixels (like the original Million Dollar Homepage)"
    ELSE IF b.width.num > 100 * Unit \/ b.height.num > 100 * Unit
    THEN "Maximum ad size is 100x100 pixels"
    ELSE IF b.width.num % (10 * Unit) # 0 \/ b.height.num % (10 * Unit) # 0
    THEN "Ad dimensions must be multiples of 10"
    ELSE IF \/ b.x.num < 0 \/ b.y.num < 0
            \/ b.x.num + b.width.num > CANVAS_WIDTH * Unit
            \/ b.y.num + b.height.num > CANVAS_HEIGHT * Unit
    THEN "Ad must fit within canvas bounds"
    ELSE IF ~Truthy(b.imageId) \/ ~IsString(b.imageId)
    THEN "imageId is required (use /generate-image first)"
    ELSE IF b.imageId \notin images
    THEN "Invalid imageId - image not found"
    ELSE IF ~Truthy(b.linkUrl) \/ ~IsString(b.linkUrl)
    THEN "linkUrl is required"
    ELSE IF ~Truthy(b.title) \/ ~IsString(b.title)
    THEN "title is required (shown on hover)"
    ELSE ""

\* mutant of AdError: linkUrl and title are tested before the image id
AdError_LinkBeforeImage(b, images) ==
    IF ~IsNumber(b.x) \/ ~IsNumber(b.y) \/ ~IsNumber(b.width) \/ ~IsNumber(b.height)
    THEN "x, y, width, and height must be numbers"
    ELSE IF b.width.num < 10 * Unit \/ b.height.num < 10 * Unit
    THEN "Minimum ad size is 10x10 pixels (like the original Million Dollar Homepage)"
    ELSE IF b.width.num % (10 * Unit) # 0 \/ b.height.num % (10 * Unit) # 0
    THEN "Ad dimensions must be multiples of 10"
    ELSE IF b.width.num > 100 * Unit \/ b.height.num > 100 * Unit
    THEN "Maximum ad size is 100x100 pixels"
    ELSE IF \/ b.x.num < 0 \/ b.y.num < 0
            \/ b.x.num + b.width.num > CANVAS_WIDTH * Unit
            \/ b.y.num + b.height.num > CANVAS_HEIGHT * Unit
    THEN "Ad must fit within canvas bounds"
    ELSE IF ~Truthy(b.linkUrl) \/ ~IsString(b.linkUrl)
    THEN "linkUrl is required"
    ELSE IF ~Truthy(b.title) \/ ~IsString(b.title)
    THEN "title is required (shown on hover)"
    ELSE IF ~Truthy(b.imageId) \/ ~IsString(b.imageId)
    THEN "imageId is required (use /generate-image first)"
    ELSE IF b.imageId \notin images
    THEN "Invalid imageId - image not found"
    ELSE ""

\* mutant of AdError: the image store is not consulted
AdError_AnyImage(b, images) ==
    IF ~IsNumber(b.x) \/ ~IsNumber(b.y) \/ ~IsNumber(b.width) \/ ~IsNumber(b.height)
    THEN "x, y, width, and height must be numbers"
    ELSE IF b.width.num < 10 * Unit \/ b.height.num < 10 * Unit
    THEN "Minimum ad size is 10x10 pixels (like the original Million Dollar Homepage)"
    ELSE IF b.width.num % (10 * Unit) # 0 \/ b.height.num % (10 * Unit) # 0
    THEN "Ad dimensions must be multiples of 10"
    ELSE IF b.width.num > 100 * Unit \/ b.height.num > 100 * Unit
    THEN "Maximum ad size is 100x100 pixels"
    ELSE IF \/ b.x.num < 0 \/ b.y.num < 0
            \/ b.x.num + b.width.num > CANVAS_WIDTH * Unit
            \/ b.y.num + b.height.num > CANVAS_HEIGHT * Unit
    THEN "Ad must fit within canvas bounds"
    ELSE IF ~Truthy(b.imageId) \/ ~IsString(b.imageId)
    THEN "imageId is required (use /generate-image first)"
    ELSE IF ~Truthy(b.linkUrl) \/ ~IsString(b.linkUrl)
    THEN "linkUrl is required"
    ELSE IF ~Truthy(b.title) \/ ~IsString(b.title)
    THEN "title is required (shown on hover)"
    ELSE ""

\* the validation of POST /ad: the error message of the first failing
\* check, "" when every check passes
AdError(b, images) ==
    IF ~IsNumber(b.x) \/ ~IsNumber(b.y) \/ ~IsNumber(b.width) \/ ~IsNumber(b.height)
    THEN "x, y, width, and height must be numbers"
    ELSE IF b.width.num < 10 * Unit \/ b.height.num < 10 * Unit
    THEN "Minimum ad size is 10x10 pixels (like the original Million Dollar Homepage)"
    ELSE IF b.width.num % (10 * Unit) # 0 \/ b.height.num % (10 * Unit) # 0
    THEN "Ad dimensions must be multiples of 10"
    ELSE IF b.width.num > 100 * Unit \/ b.height.num > 100 * Unit
    THEN "Maximum ad size is 100x100 pixels"
    ELSE IF \/ b.x.num < 0 \/ b.y.num < 0
            \/ b.x.num + b.width.num > CANVAS_WIDTH * Unit
            \/ b.y.num + b.height.num > CANVAS_HEIGHT * Unit
    THEN "Ad must fit within canvas bounds"
    ELSE IF ~Truthy(b.imageId) \/ ~IsString(b.imageId)
    THEN "imageId is required (use /generate-image first)"
    ELSE IF b.imageId \notin images
    THEN "Invalid imageId - image not found"
    ELSE IF ~Truthy(b.linkUrl) \/ ~IsString(b.linkUrl)
    THEN "linkUrl is required"
    ELSE IF ~Truthy(b.title) \/ ~IsString(b.title)
    THEN "title is required (shown on hover)"
    ELSE ""

\* the values px takes in: for (let px = x; px < x + width; px++)
LoopRange(x, width) ==
    {x + i * Unit : i \in {j \in 0..(width \div Unit) : j * Unit < width}}

\* mutant of AdKeys: the marking loops stop after the first row
AdKeys_FirstRow(x, y, width, height) ==
    {Key(px, y) : px \in LoopRange(x, width)}

\* the keys the marking loops of POST /ad set
AdKeys(x, y, width, height) ==
    {Key(px, py) : px \in LoopRange(x, width), py \in LoopRange(y, height)}

\* the decimal digit of a small id number
Digit(n) == <<"1", "2", "3", "4", "5", "6", "7", "8", "9">>[n]

\* `ad_${Date.now()}_${Math.random()...}`: the n-th fresh ad id
AdId(n) == Str(<<"a", "d", "_", Digit(n)>>)

\* `img_${Date.now()}_${Math.random()...}`: the n-th fresh image id
ImageId(n) == Str(<<"i", "m", "g", "_", Digit(n)>>)

\* pixelCount = width * height
PixelCount(width, height) == (width \div Unit) * (height \div Unit)

\* the PixelData POST /ad stores in every cell of the rectangle
AdCell(b, adId) ==
    [color |-> AD_COLOR,
     owner |-> OrElse(b.owner, ANONYMOUS),
     url   |-> Undefined,
     adId  |-> adId]

\* the AdPlacement record POST /ad appends
Placement(b, adId) ==
    [id |-> adId,
     owner |-> OrElse(b.owner, ANONYMOUS),
     x |-> b.x, y |-> b.y, width |-> b.width, height |-> b.height,
     pixels |-> PixelCount(b.width.num, b.height.num),
     totalCost |-> PixelCount(b.width.num, b.height.num) * PIXEL_PRICE,
     imageId |-> b.imageId,
     linkUrl |-> b.linkUrl,
     title |-> b.title]

PostAd(c) ==
    LET e == inflight[c]
        b == e.req.body
        err == AdError(b, generatedImages)
        adId == AdId(Len(adPlacements) + 1)
        keys == AdKeys(b.x.num, b.y.num, b.width.num, b.height.num)
        newPixels == Cardinality({k \in keys : WasEmpty(canvas, k)})
        placement == Placement(b, adId)
    IN
    /\ e.stage \in {"sent", "paid"}
    /\ e.req.route = "POST /ad"
    /\ ReachesHandler(e)
    /\ IF err # ""
       THEN /\ Respond(c, 400, ErrorBody(err))
            /\ UNCHANGED <<store, lastWrite>>
       ELSE /\ Len(adPlacements) < MaxAds
            /\ canvas' = CanvasSet(canvas, keys, AdCell(b, adId))
            /\ totalPixelsSold' = totalPixelsSold + newPixels
            /\ totalRevenue' = totalRevenue + newPixels * PIXEL_PRICE
            /\ adPlacements' = Append(adPlacements, placement)
            /\ lastWrite' = Record(lastWrite, keys, "POST /ad", b)
            /\ Respond(c, 200,
                 [success |-> TRUE, placement |-> placement,
                  newPixels |-> newPixels,
                  totalPixelsSold |-> totalPixelsSold + newPixels])
            /\ UNCHANGED generatedImages
    /\ UNCHANGED agentVars

\* ------------------------------------------------------------------------
\* POST /generate-image
\* ------------------------------------------------------------------------

\* the validation of POST /generate-image
ImageError(b) ==
    IF ~IsNumber(b.width) \/ ~IsNumber(b.height)
    THEN "width and height must be numbers"
    ELSE IF b.width.num < 10 * Unit \/ b.height.num < 10 * Unit
    THEN "Minimum dimensions are 10x10"
    ELSE IF b.width.num % (10 * Unit) # 0 \/ b.height.num % (10 * Unit) # 0
    THEN "Dimensions must be multiples of 10"
    ELSE IF ~Truthy(b.prompt) \/ ~IsString(b.prompt)
    THEN "prompt is required"
    ELSE ""

\* the handler up to its await of openai.images.generate
GenerateImage(c) ==
    LET e == inflight[c]
        err == ImageError(e.req.body)
    IN
    /\ e.stage \in {"sent", "paid"}
    /\ e.req.route = "POST /generate-image"
    /\ ReachesHandler(e)
    /\ IF err # ""
       THEN Respond(c, 400, ErrorBody(err))
       ELSE inflight' = [inflight EXCEPT ![c].stage = "generating"]
    /\ UNCHANGED <<store, lastWrite>>
    /\ UNCHANGED agentVars

\* mutant of AfterFailure: the image is stored before the generation fails
AfterFailure_Stored(images, imageId) == images \cup {imageId}

\* the image store when the catch runs: generatedImages.set comes after the
\* awaits of the try block, so nothing has been stored
AfterFailure(images, imageId) == images

\* the handler after the await: the image is stored, or the catch answers 500
ImageGenerated(c, ok) ==
    LET e == inflight[c]
        imageId == ImageId(Cardinality(generatedImages) + 1)
    IN
    /\ e.stage = "generating"
    /\ IF ok
       THEN /\ Cardinality(generatedImages) < MaxImages
            /\ generatedImages' = generatedImages \cup {imageId}
            /\ Respond(c, 200,
                 [success |-> TRUE, imageId |-> imageId,
                  width |-> e.req.body.width, height |-> e.req.body.height])
       ELSE /\ Respond(c, 500, ErrorBody("Image generation failed"))
            /\ generatedImages' = AfterFailure(generatedImages, imageId)
    /\ UNCHANGED <<canvas, adPlacements, totalRevenue, totalPixelsSold, lastWrite>>
    /\ UNCHANGED agentVars

\* ------------------------------------------------------------------------
\* Read-only endpoints
\* ------------------------------------------------------------------------

\* parseInt of a path parameter: the decimal text of a number is truncated
\* towards zero, any other text gives NaN
ParseInt(p) ==
    IF IsNumber(p)
    THEN IF p.num >= 0 THEN Num((p.num \div Unit) * Unit)
                       ELSE Num(0 - (((0 - p.num) \div Unit) * Unit))
    ELSE NaN

\* GET /pixel/:x/:y
PixelQuery(px, py, cv) ==
    LET x == ParseInt(px)
        y == ParseInt(py)
    IN
    IF \/ ~IsNumber(x) \/ ~IsNumber(y)
       \/ x.num < 0 \/ x.num >= CANVAS_WIDTH * Unit
       \/ y.num < 0 \/ y.num >= CANVAS_HEIGHT * Unit
    THEN [status |-> 400, body |-> ErrorBody("Invalid coordinates")]
    ELSE IF Key(x.num, y.num) \in DOMAIN cv
    THEN [status |-> 200,
          body |-> [x |-> x, y |-> y, available |-> FALSE,
                    pixel |-> cv[Key(x.num, y.num)]]]
    ELSE [status |-> 200,
          body |-> [x |-> x, y |-> y, available |-> TRUE, price |-> PIXEL_PRICE]]

\* GET /canvas: one entry per key of the map (the order is the map's)
CanvasSnapshot(cv) ==
    [pixels |-> {[x |-> Num(k[1]), y |-> Num(k[2]),
                  color |-> cv[k].color, owner |-> cv[k].owner, url |-> cv[k].url]
                 : k \in DOMAIN cv},
     totalPixels |-> Cardinality(DOMAIN cv)]

\* the sequence s back to front
Reversed(s) == [i \in 1..Len(s) |-> s[Len(s) + 1 - i]]

\* mutant of AdsList: the newest placement is listed first
AdsList_NewestFirst(ads) == [placements |-> Reversed(ads), total |-> Len(ads)]

\* GET /ads
AdsList(ads) == [placements |-> ads, total |-> Len(ads)]

\* GET /info, the stats object
InfoStats(sold, revenue, ads) ==
    [pixelsSold |-> sold,
     pixelsRemaining |-> CANVAS_WIDTH * CANVAS_HEIGHT - sold,
     totalRevenue |-> revenue,
     adPlacements |-> Len(ads)]

\* GET /images/:id
ImageFetch(id, images) ==
    IF id \in images
    THEN [status |-> 200, body |-> [image |-> id]]
    ELSE [status |-> 404, body |-> ErrorBody("Image not found")]

\* the answer of a GET route in the current state
ReadAnswer(req) ==
    CASE req.route = "GET /pixel" -> PixelQuery(req.body.x, req.body.y, canvas)
      [] req.route = "GET /canvas" ->
            [status |-> 200, body |-> CanvasSnapshot(canvas)]
      [] req.route = "GET /ads" -> [status |-> 200, body |-> AdsList(adPlacements)]
      [] req.route = "GET /info" ->
            [status |-> 200,
             body |-> InfoStats(totalPixelsSold, totalRevenue, adPlacements)]
      [] req.route = "GET /images" -> ImageFetch(req.body.id, generatedImages)

ReadRoutes == {"GET /pixel", "GET /canvas", "GET /ads", "GET /info", "GET /images"}

\* the GET handlers: they answer from the stores and change nothing
Read(c) ==
    LET e == inflight[c] IN
    /\ e.stage \in {"sent", "paid"}
    /\ e.req.route \in ReadRoutes
    /\ ReachesHandler(e)
    /\ Respond(c, ReadAnswer(e.req).status, ReadAnswer(e.req).body)
    /\ UNCHANGED <<store, lastWrite>>
    /\ UNCHANGED agentVars

\* ------------------------------------------------------------------------
\* The payment gate and the client side of an exchange
\* ------------------------------------------------------------------------

\* a client sends one of the requests on an idle connection
Send(c, requests) ==
    /\ inflight[c].stage = "idle"
    /\ \E req \in requests :
          inflight' = [inflight EXCEPT ![c] =
              [stage |-> "sent", req |-> req, required |-> 0,
               res |-> [status |-> 0, body |-> Undefined]]]
    /\ UNCHANGED <<store, lastWrite>>
    /\ UNCHANGED agentVars

\* paymentMiddleware on a route of its table: without an X-PAYMENT header it
\* answers 402 with the payment requirements, with one it forwards the
\* payment to the facilitator
PaymentGate(c) ==
    LET e == inflight[c] IN
    /\ e.stage = "sent"
    /\ e.req.route \in PaidRoutes
    /\ IF e.req.payment
       THEN inflight' = [inflight EXCEPT ![c] =
               [@ EXCEPT !.stage = "verifying", !.required = RoutePrice(e.req.route)]]
       ELSE inflight' = [inflight EXCEPT ![c] =
               [@ EXCEPT !.stage = "responded",
                         !.required = RoutePrice(e.req.route),
                         !.res = [status |-> 402,
                                  body |-> [price |-> RoutePrice(e.req.route)]]]]
    /\ UNCHANGED <<store, lastWrite>>
    /\ UNCHANGED agentVars

\* the facilitator's answer: a valid payment lets the request proceed, an
\* invalid one is answered 402
FacilitatorVerdict(c, valid) ==
    LET e == inflight[c] IN
    /\ e.stage = "verifying"
    /\ IF valid
       THEN inflight' = [inflight EXCEPT ![c].stage = "paid"]
       ELSE Respond(c, 402, [price |-> e.required])
    /\ UNCHANGED <<store, lastWrite>>
    /\ UNCHANGED agentVars

\* the client reads the response; the connection is free again
Receive(c) ==
    /\ inflight[c].stage = "responded"
    /\ inflight' = [inflight EXCEPT ![c] = Idle]
    /\ UNCHANGED <<store, lastWrite>>
    /\ UNCHANGED agentVars

\* ------------------------------------------------------------------------
\* The requests the clients send
\* ------------------------------------------------------------------------

RED == Str(<<"#", "F", "F", "0", "0", "0", "0">>)
green == Str(<<"#", "0", "0", "f", "f", "0", "a">>)
NotAColor == Str(<<"r", "e", "d">>)
OwnerA == Str(<<"A">>)
OwnerB == Str(<<"B">>)
Link == Str(<<"u">>)
Title == Str(<<"t">>)
Prompt == Str(<<"p">>)
Empty == Str(<<>>)
UnknownImageId == Str(<<"n", "o", "p", "e">>)

Request(route, payment, body) == [route |-> route, payment |-> payment, body |-> body]

PixelBody(x, y, color, owner) ==
    [x |-> x, y |-> y, color |-> color, owner |-> owner, url |-> Undefined]

AdBody(x, y, width, height, imageId, linkUrl, title, owner) ==
    [x |-> x, y |-> y, width |-> width, height |-> height, imageId |-> imageId,
     linkUrl |-> linkUrl, title |-> title, owner |-> owner]

ImageBody(prompt, width, height) == [prompt |-> prompt, width |-> width, height |-> height]

\* paints of (0,0), of (0.5,0) and of the out-of-range (1000,0)
CorePixelBodies ==
    {PixelBody(x, Whole(0), RED, OwnerA) : x \in {Whole(0), Frac(0), Whole(1000)}}
    \cup {PixelBody(x, Whole(0), green, Undefined) : x \in {Whole(0), Frac(0)}}
    \cup {PixelBody(Whole(0), Whole(0), NotAColor, OwnerA)}

\* 10x10 ads at (0,0) and (0.5,0), and rejected ones
CoreAdBodies ==
    {AdBody(x, Whole(0), Whole(10), Whole(10), ImageId(1), Link, Title, OwnerB)
       : x \in {Whole(0), Frac(0)}}
    \cup {AdBody(Whole(0), Whole(0), Whole(10), Whole(10), UnknownImageId, Link, Title, OwnerB),
          AdBody(Whole(995), Whole(0), Whole(10), Whole(10), ImageId(1), Link, Title, OwnerB)}

CoreImageBodies ==
    {ImageBody(Prompt, Whole(10), Whole(10)), ImageBody(Prompt, Whole(5), Whole(10))}

CoreReads ==
    {Request("GET /pixel", FALSE, [x |-> x, y |-> Whole(0)]) : x \in {Whole(0), Frac(0)}}
    \cup {Request(r, FALSE, Undefined) : r \in {"GET /canvas", "GET /ads", "GET /info"}}
    \cup {Request("GET /images", FALSE, [id |-> ImageId(1)])}

CoreRequests ==
    {Request("POST /pixel", p, b) : p \in BOOLEAN, b \in CorePixelBodies}
    \cup {Request("POST /ad", p, b) : p \in BOOLEAN, b \in CoreAdBodies}
    \cup {Request("POST /generate-image", FALSE, b) : b \in CoreImageBodies}
    \cup CoreReads

\* ------------------------------------------------------------------------
\* The agent: values, catalogues and the history summary
\* ------------------------------------------------------------------------

\* rounds started in one behaviour
MaxRounds == 2
\* reasoning responses that request tools in one round
MaxSteps == 1
\* candidate positions sampled by one find_empty_space (the code samples
\* 100; what is found depends on the candidates drawn, not on their number)
MaxCandidates == 2

Null == [null |-> TRUE]

\* String.prototype.toLowerCase on the letters the names hold
LowerChar(c) ==
    CASE c = "A" -> "a" [] c = "B" -> "b" [] c = "G" -> "g" [] c = "P" -> "p"
      [] c = "X" -> "x" [] OTHER -> c
ToLowerCase(s) == [i \in 1..Len(s) |-> LowerChar(s[i])]

BrewBox == Str(<<"B", "r", "e", "w", "B", "o", "x">>)
PetPal == Str(<<"P", "e", "t", "P", "a", "l">>)
bold == Str(<<"b", "o", "l", "d">>)
neon == Str(<<"n", "e", "o", "n">>)
micro == Str(<<"m", "i", "c", "r", "o">>)
small == Str(<<"s", "m", "a", "l", "l">>)

\* two of the brands of brands.ts, two of the styles of styles.ts and two of
\* the sizes of sizes.ts
brands == {[name |-> BrewBox], [name |-> PetPal]}
adStyles == {[name |-> bold], [name |-> neon]}
adSizes == {[name |-> micro, width |-> Whole(10), height |-> Whole(10)],
            [name |-> small, width |-> Whole(20), height |-> Whole(20)]}

\* catalogue.find((e) => e.name.toLowerCase() === name.toLowerCase()); the
\* names of a catalogue differ, so at most one entry matches
FindByName(catalogue, name) ==
    {e \in catalogue : ToLowerCase(e.name.str) = ToLowerCase(name.str)}

\* the entries the summary of the system prompt shows
RecentCount == 10

\* mutant of RecentAdsContext: the oldest entries are kept
RecentAdsContext_Oldest(history) ==
    IF Len(history) <= RecentCount THEN history ELSE SubSeq(history, 1, RecentCount)

\* getRecentAdsContext: placedAdsHistory.slice(-10), one line per entry
RecentAdsContext(history) ==
    IF Len(history) <= RecentCount THEN history
    ELSE SubSeq(history, Len(history) - RecentCount + 1, Len(history))

\* recordPlacedAd
RecordPlacedAd(history, ad, round) ==
    Append(history, [brand |-> ad.brand.name, style |-> ad.style.name,
                     size |-> ad.size.name, round |-> round])

\* ------------------------------------------------------------------------
\* The agent: messages
\* ------------------------------------------------------------------------

\* the user message that opens round `round`: its content is one text,
\* which names the round
UserPrompt(round) ==
    [role |-> "user", content |-> <<[type |-> "text", round |-> round]>>]
AssistantMessage(blocks) == [role |-> "assistant", content |-> blocks]
ToolResultsMessage(results) == [role |-> "user", content |-> results]

\* mutant of NewConversation: the messages of the earlier rounds are kept
NewConversation_Carry(old, round) == Append(old, UserPrompt(round))

\* conversationHistory = [{ role: "user", content: `Round ${currentRound}...` }]
NewConversation(old, round) == <<UserPrompt(round)>>

\* the tool-requesting responses the round has received so far
StepsTaken(conversation) == Len(conversation) \div 2

\* the tool_use blocks of a response: the reasoning service gives every block
\* an id of its own, here <<round, step, position>>
Blocks(templates, round, step) ==
    [i \in 1..Len(templates) |->
        [type |-> "tool_use", id |-> <<round, step, i>>,
         name |-> templates[i].name, input |-> templates[i].input]]

ToolResult(block, content) ==
    [type |-> "tool_result", tool_use_id |-> block.id, content |-> content]

\* JSON.stringify({ error: ... })
ErrorPayload(msg) == [error |-> msg]

\* ------------------------------------------------------------------------
\* The agent: findEmptySpace
\* ------------------------------------------------------------------------

\* Math.floor(Math.random() * n) for an integer n: any integer of 0..n-1
\* (of n..0 when n is negative)
LeastDraw(n) == IF n > 0 THEN 0 ELSE n
GreatestDraw(n) == IF n > 0 THEN n - 1 ELSE 0
RandomFloor(n) == LeastDraw(n)..GreatestDraw(n)

\* the outcomes an environment draws: every one, or the least and the
\* greatest
Draws(n, everyDraw) ==
    IF everyDraw THEN RandomFloor(n) ELSE {LeastDraw(n), GreatestDraw(n)}

\* mutant of RoundToGrid: the candidates are not rounded
RoundToGrid_Unrounded(v) == v

\* Math.floor(v / 10) * 10
RoundToGrid(v) == (v \div 10) * 10

\* the candidate positions one call can draw, after the rounding
CandidatePositions(width, height, everyDraw) ==
    {[x |-> RoundToGrid(rx), y |-> RoundToGrid(ry)] :
        rx \in Draws(1000 - width, everyDraw),
        ry \in Draws(1000 - height, everyDraw)}

Swap(s, i, j) == [s EXCEPT ![i] = s[j], ![j] = s[i]]

\* the shuffle: for i from the last index down to the second one, the
\* i-th candidate changes places with the js[i]-th
RECURSIVE Shuffle(_, _, _)
Shuffle(s, js, i) ==
    IF i <= 1 THEN s ELSE Shuffle(Swap(s, i, js[i]), js, i - 1)

\* occupied: the set of `${pixel.x},${pixel.y}` of a snapshot
Occupied(snapshot) == {Key(p.x.num, p.y.num) : p \in snapshot.pixels}

\* the candidate passes the bounds checks and no key `${px},${py}` of its
\* rectangle is occupied
CandidateFits(c, width, height, occupied) ==
    /\ ~(c.x < 0 \/ c.y < 0)
    /\ ~(c.x + width > 1000 \/ c.y + height > 1000)
    /\ \A k \in occupied :
          ~(/\ IsIntegerTicks(k[1]) /\ IsIntegerTicks(k[2])
            /\ c.x <= k[1] \div Unit /\ k[1] \div Unit < c.x + width
            /\ c.y <= k[2] \div Unit /\ k[2] \div Unit < c.y + height)

\* mutant of FindEmptySpace: when no candidate fits, the aligned places of
\* the grid are tried one after the other
FindEmptySpace_Exhaustive(width, height, snapshot, candidates) ==
    LET w == width.num \div Unit
        h == height.num \div Unit
        fits == {i \in 1..Len(candidates) :
                    CandidateFits(candidates[i], w, h, Occupied(snapshot))}
        places == {[x |-> 10 * i, y |-> 10 * j] :
                      i \in 0..((1000 - w) \div 10), j \in 0..((1000 - h) \div 10)}
        vacant == {p \in places : CandidateFits(p, w, h, Occupied(snapshot))}
    IN IF fits # {}
       THEN LET first == CHOOSE i \in fits : \A j \in fits : i <= j
            IN [found |-> TRUE,
                x |-> Whole(candidates[first].x), y |-> Whole(candidates[first].y),
                width |-> width, height |-> height]
       ELSE IF vacant = {}
       THEN [found |-> FALSE]
       ELSE LET p == CHOOSE q \in vacant : TRUE
            IN [found |-> TRUE, x |-> Whole(p.x), y |-> Whole(p.y),
                width |-> width, height |-> height]

\* findEmptySpace after the snapshot has arrived, for numbers width and
\* height (integers) and the shuffled candidates: the first candidate that
\* fits is the answer
FindEmptySpace(width, height, snapshot, candidates) ==
    LET w == width.num \div Unit
        h == height.num \div Unit
        fits == {i \in 1..Len(candidates) :
                    CandidateFits(candidates[i], w, h, Occupied(snapshot))}
    IN IF fits = {}
       THEN [found |-> FALSE]
       ELSE LET first == CHOOSE i \in fits : \A j \in fits : i <= j
            IN [found |-> TRUE,
                x |-> Whole(candidates[first].x), y |-> Whole(candidates[first].y),
                width |-> width, height |-> height]

\* findEmptySpace when width or height is no number: every candidate is
\* NaN, no comparison with NaN holds, no loop runs, and the first candidate
\* is the answer
FindEmptySpaceNaN(width, height) ==
    [found |-> TRUE, x |-> NaN, y |-> NaN, width |-> width, height |-> height]

\* ------------------------------------------------------------------------
\* The agent: the answers of the server, as the agent's fetch sees them
\* ------------------------------------------------------------------------

\* res.ok with the parsed body, a response that is not ok with its text, or
\* a fetch (or res.json) that throws
Ok(data) == [kind |-> "ok", data |-> data]
Rejected(text) == [kind |-> "rejected", text |-> text]
Threw == [kind |-> "threw"]

NoCall == [kind |-> "none"]

\* the route a tool fetches
RouteOf(name) ==
    CASE name = "get_homepage_info" -> "GET /info"
      [] name = "get_canvas" -> "GET /canvas"
      [] name = "get_ads" -> "GET /ads"
      [] name = "find_empty_space" -> "GET /canvas"
      [] name = "generate_ad_image" -> "POST /generate-image"
      [] name = "place_ad" -> "POST /ad"

\* the snapshot GET /canvas answers when the cells `keys` are painted
SnapshotOf(keys) ==
    CanvasSnapshot([k \in keys |->
        [color |-> AD_COLOR, owner |-> ANONYMOUS, url |-> Undefined, adId |-> Undefined]])

\* what the server can answer to the call: the bodies of its handlers,
\* reduced to the fields the agent reads
HttpResponses(c, env) ==
    LET route == RouteOf(c.block.name)
        all ==
          CASE route = "GET /info" -> {Ok(InfoStats(0, 0, <<>>)), Threw}
            [] route = "GET /ads" -> {Ok(AdsList(<<>>)), Threw}
            [] route = "GET /canvas" -> {Ok(s) : s \in env.snapshots} \cup {Threw}
            [] route = "POST /generate-image" ->
                  {Ok([success |-> TRUE, imageId |-> id]) : id \in env.imageIds}
                  \cup {Rejected("Image generation failed"), Threw}
            [] route = "POST /ad" ->
                  {Ok([success |-> TRUE, imageId |-> c.block.input.imageId]),
                   Rejected("Invalid imageId - image not found"), Threw}
    IN {r \in all : r.kind \in env.outcomes}

\* ------------------------------------------------------------------------
\* The agent: runAgentLoop
\* ------------------------------------------------------------------------

\* mutant of CaughtError: the error leaves runAgentLoop
CaughtError_Rethrown == "crashed"

\* catch (err) { continueLoop = false }: the inner loop ends and the round
\* goes on to its wait
CaughtError == "sleeping"

\* mutant of NoFurtherActions: the agent stops
NoFurtherActions_Stops == "crashed"

\* else { continueLoop = false }: the inner loop ends and the round goes on
\* to its wait
NoFurtherActions == "sleeping"

\* the external requests of the agent: the request to the reasoning service
\* and the fetch of a tool
ReasoningRequest == [kind |-> "reasoning"]
FetchRequest(block) == [kind |-> "fetch", id |-> block.id]

\* the requests that stay outstanding when request r is answered
Settled(requests, r) ==
    LET i == CHOOSE j \in 1..Len(requests) : requests[j] = r
    IN SubSeq(requests, 1, i - 1) \o SubSeq(requests, i + 1, Len(requests))

\* mutant of AwaitsFetch: the for loop goes on while the fetch is in flight
AwaitsFetch_GoesOn == "tools"

\* await fetch(...): the agent stands at the await of the running tool
AwaitsFetch == "awaiting"

\* the agent's state after its module has been loaded
AgentInit ==
    /\ currentRound = 0
    /\ placedAdsHistory = <<>>
    /\ lastGeneratedAd = Null
    /\ conversationHistory = <<>>
    /\ systemPrompt = <<>>
    /\ pc = "round"
    /\ toolUseBlocks = <<>>
    /\ toolResults = <<>>
    /\ call = NoCall
    /\ executed = <<>>
    /\ lastError = Null
    /\ outstanding = <<>>
    /\ generatedAds = [id \in {} |-> Null]

\* the top of while (true), up to the first anthropic.messages.create
StartRound ==
    /\ pc = "round"
    /\ currentRound < MaxRounds
    /\ currentRound' = currentRound + 1
    /\ systemPrompt' = RecentAdsContext(placedAdsHistory)
    /\ conversationHistory' = NewConversation(conversationHistory, currentRound + 1)
    /\ pc' = "reasoning"
    /\ outstanding' = Append(outstanding, ReasoningRequest)
    /\ UNCHANGED <<placedAdsHistory, lastGeneratedAd, toolUseBlocks, toolResults,
                   call, executed, lastError, generatedAds>>
    /\ UNCHANGED serverVars

\* the reasoning service answers with stop_reason "tool_use"
ReasoningRequestsTools(env) ==
    /\ pc = "reasoning"
    /\ StepsTaken(conversationHistory) < MaxSteps
    /\ \E templates \in env.choices :
          LET blocks == Blocks(templates, currentRound,
                               StepsTaken(conversationHistory) + 1)
          IN /\ conversationHistory' =
                    Append(conversationHistory, AssistantMessage(blocks))
             /\ toolUseBlocks' = blocks
    /\ toolResults' = <<>>
    /\ executed' = <<>>
    /\ pc' = "tools"
    /\ outstanding' = Settled(outstanding, ReasoningRequest)
    /\ UNCHANGED <<currentRound, placedAdsHistory, lastGeneratedAd, systemPrompt, call,
                   lastError, generatedAds>>
    /\ UNCHANGED serverVars

\* the reasoning service answers with another stop reason
ReasoningEnds ==
    /\ pc = "reasoning"
    /\ pc' = NoFurtherActions
    /\ outstanding' = Settled(outstanding, ReasoningRequest)
    /\ UNCHANGED <<currentRound, placedAdsHistory, lastGeneratedAd, conversationHistory,
                   systemPrompt, toolUseBlocks, toolResults, call, executed, lastError,
                   generatedAds>>
    /\ UNCHANGED serverVars

\* anthropic.messages.create throws
ReasoningFails ==
    /\ pc = "reasoning"
    /\ pc' = CaughtError
    /\ lastError' = [round |-> currentRound, thrownBy |-> "reasoning"]
    /\ outstanding' = Settled(outstanding, ReasoningRequest)
    /\ UNCHANGED <<currentRound, placedAdsHistory, lastGeneratedAd, conversationHistory,
                   systemPrompt, toolUseBlocks, toolResults, call, executed, generatedAds>>
    /\ UNCHANGED serverVars

\* generateAdImage calls toLowerCase on brandName, styleName and sizeName
\* before its try block: a TypeError when one of them is no string
GenerateThrows(input) ==
    ~IsString(input.brandName) \/ ~IsString(input.style) \/ ~IsString(input.size)

\* the answer of a tool that returns without a fetch; Null when it fetches
ImmediateResult(block) ==
    CASE block.name \in {"list_brands", "list_styles", "list_sizes"} ->
            [list |-> block.name]
      [] block.name \in {"get_homepage_info", "get_canvas", "get_ads",
                         "find_empty_space", "place_ad"} -> Null
      [] block.name = "generate_ad_image" ->
            IF FindByName(brands, block.input.brandName) = {}
            THEN ErrorPayload("Brand not found")
            ELSE IF FindByName(adStyles, block.input.style) = {}
            THEN ErrorPayload("Style not found")
            ELSE IF FindByName(adSizes, block.input.size) = {}
            THEN ErrorPayload("Size not found")
            ELSE Null
      [] OTHER -> ErrorPayload("Unknown tool")

\* the for loop calls processToolCall for the next block: the tool runs up
\* to its fetch, or to its end when it has none
ExecuteTool ==
    LET block == toolUseBlocks[Len(toolResults) + 1] IN
    /\ pc = "tools"
    /\ Len(toolResults) < Len(toolUseBlocks)
    /\ executed' = Append(executed, block.id)
    /\ IF block.name = "generate_ad_image" /\ GenerateThrows(block.input)
       THEN /\ pc' = CaughtError
            /\ lastError' = [round |-> currentRound, thrownBy |-> block.name]
            /\ UNCHANGED <<toolResults, call, outstanding>>
       ELSE IF ImmediateResult(block) # Null
       THEN /\ toolResults' = Append(toolResults, ToolResult(block, ImmediateResult(block)))
            /\ UNCHANGED <<pc, call, lastError, outstanding>>
       ELSE /\ call' = [kind |-> "http", block |-> block, response |-> Undefined]
            /\ pc' = AwaitsFetch
            /\ outstanding' = Append(outstanding, FetchRequest(block))
            /\ UNCHANGED <<toolResults, lastError>>
    /\ UNCHANGED <<currentRound, placedAdsHistory, lastGeneratedAd, conversationHistory,
                   systemPrompt, toolUseBlocks, generatedAds>>
    /\ UNCHANGED serverVars

\* the server answers the fetch of the running tool, or the fetch throws
HttpResponds(env) ==
    /\ pc = "awaiting"
    /\ \E r \in HttpResponses(call, env) : call' = [call EXCEPT !.response = r]
    /\ pc' = "resumed"
    /\ outstanding' = Settled(outstanding, FetchRequest(call.block))
    /\ UNCHANGED <<currentRound, placedAdsHistory, lastGeneratedAd, conversationHistory,
                   systemPrompt, toolUseBlocks, toolResults, executed, lastError,
                   generatedAds>>
    /\ UNCHANGED serverVars

\* the results findEmptySpace can return on a snapshot
FindResults(input, snapshot, everyDraw) ==
    IF IsNumber(input.width) /\ IsNumber(input.height)
    THEN LET positions == CandidatePositions(input.width.num \div Unit,
                                             input.height.num \div Unit, everyDraw)
         IN {FindEmptySpace(input.width, input.height, snapshot,
                            Shuffle(candidates, js, MaxCandidates)) :
                candidates \in [1..MaxCandidates -> positions],
                js \in {f \in [1..MaxCandidates -> 1..MaxCandidates] :
                           \A i \in 1..MaxCandidates : f[i] <= i}}
    ELSE {FindEmptySpaceNaN(input.width, input.height)}

\* the look-ups of generateAdImage
GeneratedAd(input) ==
    [brand |-> CHOOSE b \in FindByName(brands, input.brandName) : TRUE,
     style |-> CHOOSE t \in FindByName(adStyles, input.style) : TRUE,
     size |-> CHOOSE z \in FindByName(adSizes, input.size) : TRUE]

\* what the running tool can return once its fetch has been answered
ResumeResults(c, env) ==
    LET name == c.block.name
        r == c.response
    IN IF r.kind = "threw" THEN {ErrorPayload("fetch failed")}
       ELSE IF r.kind = "rejected" THEN {ErrorPayload(r.text)}
       ELSE CASE name = "find_empty_space" ->
                    FindResults(c.block.input, r.data, env.everyDraw)
              [] name = "get_canvas" ->
                    {[totalPixels |-> r.data.totalPixels,
                      pixelCount |-> Cardinality(r.data.pixels)]}
              [] name = "generate_ad_image" ->
                    {[success |-> TRUE, imageId |-> r.data.imageId,
                      brand |-> GeneratedAd(c.block.input).brand.name,
                      width |-> GeneratedAd(c.block.input).size.width,
                      height |-> GeneratedAd(c.block.input).size.height]}
              [] OTHER -> {r.data}

\* the tool goes on after its await and returns its result to the for loop
ToolResumes(env) ==
    LET name == call.block.name
        ok == call.response.kind = "ok"
    IN
    /\ pc = "resumed"
    /\ \E content \in ResumeResults(call, env) :
          toolResults' = Append(toolResults, ToolResult(call.block, content))
    /\ lastGeneratedAd' =
          IF name = "generate_ad_image" /\ ok
          THEN GeneratedAd(call.block.input) ELSE lastGeneratedAd
    /\ placedAdsHistory' =
          IF name = "place_ad" /\ ok /\ lastGeneratedAd # Null
          THEN RecordPlacedAd(placedAdsHistory, lastGeneratedAd, currentRound)
          ELSE placedAdsHistory
    /\ generatedAds' =
          IF name = "generate_ad_image" /\ ok
          THEN [id \in DOMAIN generatedAds \cup {call.response.data.imageId} |->
                   IF id = call.response.data.imageId
                   THEN GeneratedAd(call.block.input) ELSE generatedAds[id]]
          ELSE generatedAds
    /\ call' = [call EXCEPT !.kind = "returned"]
    /\ pc' = "tools"
    /\ UNCHANGED <<currentRound, conversationHistory, systemPrompt, toolUseBlocks,
                   executed, lastError, outstanding>>
    /\ UNCHANGED serverVars

\* after the for loop: the results go into the conversation and the next
\* anthropic.messages.create is sent
ReturnResults ==
    /\ pc = "tools"
    /\ Len(toolResults) = Len(toolUseBlocks)
    /\ conversationHistory' =
          Append(conversationHistory, ToolResultsMessage(toolResults))
    /\ pc' = "reasoning"
    /\ outstanding' = Append(outstanding, ReasoningRequest)
    /\ UNCHANGED <<currentRound, placedAdsHistory, lastGeneratedAd, systemPrompt,
                   toolUseBlocks, toolResults, call, executed, lastError, generatedAds>>
    /\ UNCHANGED serverVars

\* sleep(60000) is over: the locals of the round are gone
Wake ==
    /\ pc = "sleeping"
    /\ pc' = "round"
    /\ toolUseBlocks' = <<>>
    /\ toolResults' = <<>>
    /\ executed' = <<>>
    /\ call' = NoCall
    /\ UNCHANGED <<currentRound, placedAdsHistory, lastGeneratedAd, conversationHistory,
                   systemPrompt, lastError, outstanding, generatedAds>>
    /\ UNCHANGED serverVars

\* ------------------------------------------------------------------------
\* The agent with a reasoning service that may request any tool
\* ------------------------------------------------------------------------

Tool(name, input) == [name |-> name, input |-> input]

GenerateInput(brandName, style, size) ==
    [brandName |-> brandName, style |-> style, size |-> size]
PlaceInput(x, y, width, height, imageId) ==
    [x |-> x, y |-> y, width |-> width, height |-> height, imageId |-> imageId,
     linkUrl |-> Link, title |-> Title]
FindInput(width, height) == [width |-> width, height |-> height]

brewbox == Str(<<"b", "r", "e", "w", "b", "o", "x">>)
Acme == Str(<<"A", "c", "m", "e">>)
grunge == Str(<<"g", "r", "u", "n", "g", "e">>)
giant == Str(<<"g", "i", "a", "n", "t">>)

GenerateBrewBox == Tool("generate_ad_image", GenerateInput(brewbox, bold, micro))
GeneratePetPal == Tool("generate_ad_image", GenerateInput(PetPal, neon, small))
PlaceMicro ==
    Tool("place_ad", PlaceInput(Whole(0), Whole(0), Whole(10), Whole(10), ImageId(1)))

\* the lists of tool_use blocks a response may hold: every tool, failing
\* and well-formed arguments, one and two blocks
AgentChoices ==
    {<<Tool("list_brands", Undefined)>>,
     <<Tool("fly", Undefined)>>,
     <<Tool("get_homepage_info", Undefined)>>,
     <<Tool("get_ads", Undefined)>>,
     <<Tool("get_canvas", Undefined)>>,
     <<Tool("find_empty_space", FindInput(Whole(10), Whole(10)))>>,
     <<GenerateBrewBox, PlaceMicro>>,
     <<Tool("generate_ad_image", GenerateInput(Undefined, bold, micro)),
       Tool("list_sizes", Undefined)>>,
     <<Tool("generate_ad_image", GenerateInput(Acme, bold, micro)),
       Tool("generate_ad_image", GenerateInput(PetPal, grunge, micro)),
       Tool("generate_ad_image", GenerateInput(PetPal, neon, giant))>>,
     <<PlaceMicro>>}

\* the origins of the candidates findEmptySpace(10, 10) can draw
SampledOrigins ==
    {Key(c.x * Unit, c.y * Unit) : c \in CandidatePositions(10, 10, FALSE)}

\* an empty grid and a grid on which the origin of every candidate that can
\* be drawn is painted
AgentSnapshots == {SnapshotOf({}), SnapshotOf(SampledOrigins)}

AgentEnv ==
    [choices |-> AgentChoices,
     outcomes |-> {"ok", "rejected", "threw"},
     snapshots |-> AgentSnapshots,
     imageIds |-> {ImageId(1)},
     everyDraw |-> FALSE]

AgentNext(env) ==
    \/ StartRound
    \/ ReasoningRequestsTools(env)
    \/ ReasoningEnds
    \/ ReasoningFails
    \/ ExecuteTool
    \/ HttpResponds(env)
    \/ ToolResumes(env)
    \/ ReturnResults
    \/ Wake

\* ------------------------------------------------------------------------
\* The server with one client connection
\* ------------------------------------------------------------------------

Conns == {1}

Init ==
    /\ canvas = [k \in {} |-> Undefined]
    /\ adPlacements = <<>>
    /\ generatedImages = {}
    /\ totalRevenue = 0
    /\ totalPixelsSold = 0
    /\ inflight = [c \in Conns |-> Idle]
    /\ lastWrite = [k \in {} |-> Undefined]
    /\ AgentInit

Next ==
    \E c \in Conns :
        \/ Send(c, CoreRequests)
        \/ PaymentGate(c)
        \/ \E valid \in BOOLEAN : FacilitatorVerdict(c, valid)
        \/ PostPixel(c)
        \/ PostAd(c)
        \/ GenerateImage(c)
        \/ \E ok \in BOOLEAN : ImageGenerated(c, ok)
        \/ Read(c)
        \/ Receive(c)

Spec == Init /\ [][Next]_vars

\* ------------------------------------------------------------------------
\* One paid exchange on a fresh server, over a wide range of request bodies
\* ------------------------------------------------------------------------

SixDigits == Str(<<"#", "F", "F", "0", "0", "0">>)
EightDigits == Str(<<"#", "F", "F", "0", "0", "0", "0", "0">>)
NotHex == Str(<<"#", "G", "G", "0", "0", "0", "0">>)
NoHash == Str(<<"F", "F", "0", "0", "0", "0", "0">>)
NumeralFive == Str(<<"5">>)
NumeralTen == Str(<<"1", "0">>)

ValidationCoords ==
    {Whole(-1), Whole(0), Frac(0), Whole(999), Frac(999), Whole(1000),
     NumeralFive, Undefined}
ValidationColors ==
    {RED, green, NotAColor, SixDigits, EightDigits, NotHex, NoHash, Whole(0), Undefined}

ValidationPixelBodies ==
    {PixelBody(x, y, color, owner) :
        x \in ValidationCoords, y \in ValidationCoords,
        color \in ValidationColors, owner \in {OwnerA, Undefined}}

ValidationAdXs == {Whole(-10), Whole(0), Frac(0), Whole(990), NumeralFive}
ValidationAdYs == {Whole(0), Whole(990), Whole(-10)}
ValidationWidths ==
    {Whole(-10), Whole(5), Frac(9), Whole(10), Whole(15), Whole(20), Whole(100),
     Whole(105), Whole(110), NumeralTen}
ValidationHeights == {Whole(5), Whole(10), Whole(15), Whole(100), Whole(105), Whole(110)}
ValidationImageIds == {ImageId(1), UnknownImageId, Undefined, Whole(1)}

ValidationAdBodies ==
    {AdBody(x, y, w, h, img, link, title, OwnerB) :
        x \in ValidationAdXs, y \in ValidationAdYs,
        w \in ValidationWidths, h \in ValidationHeights,
        img \in ValidationImageIds, link \in {Link, Empty}, title \in {Title, Undefined}}

ValidationRequests ==
    {Request("POST /pixel", TRUE, b) : b \in ValidationPixelBodies}
    \cup {Request("POST /ad", TRUE, b) : b \in ValidationAdBodies}

\* a server that has generated no image yet, or one image
InitValidation ==
    /\ canvas = [k \in {} |-> Undefined]
    /\ adPlacements = <<>>
    /\ generatedImages \in {{}, {ImageId(1)}}
    /\ totalRevenue = 0
    /\ totalPixelsSold = 0
    /\ inflight = [c \in Conns |-> Idle]
    /\ lastWrite = [k \in {} |-> Undefined]
    /\ AgentInit

NextValidation ==
    \E c \in Conns :
        \/ Send(c, ValidationRequests)
        \/ PaymentGate(c)
        \/ \E valid \in BOOLEAN : FacilitatorVerdict(c, valid)
        \/ PostPixel(c)
        \/ PostAd(c)

SpecValidation == InitValidation /\ [][NextValidation]_vars

\* ------------------------------------------------------------------------
\* The server with two client connections: requests in flight at once
\* ------------------------------------------------------------------------

Clients == {1, 2}

\* two overlapping placements, a paint inside both, an image generation and
\* the reads
ConcurrentRequests ==
    {Request("POST /ad", TRUE,
             AdBody(x, Whole(0), Whole(10), Whole(10), ImageId(1), Link, Title, OwnerB))
        : x \in {Whole(0), Whole(5)}}
    \cup {Request("POST /pixel", TRUE, PixelBody(Whole(5), Whole(0), RED, OwnerA)),
          Request("POST /generate-image", FALSE, ImageBody(Prompt, Whole(10), Whole(10))),
          Request("GET /pixel", FALSE, [x |-> Whole(5), y |-> Whole(0)]),
          Request("GET /canvas", FALSE, Undefined),
          Request("GET /ads", FALSE, Undefined)}

InitConcurrent ==
    /\ canvas = [k \in {} |-> Undefined]
    /\ adPlacements = <<>>
    /\ generatedImages = {}
    /\ totalRevenue = 0
    /\ totalPixelsSold = 0
    /\ inflight = [c \in Clients |-> Idle]
    /\ lastWrite = [k \in {} |-> Undefined]
    /\ AgentInit

NextConcurrent ==
    \E c \in Clients :
        \/ Send(c, ConcurrentRequests)
        \/ PaymentGate(c)
        \/ \E valid \in BOOLEAN : FacilitatorVerdict(c, valid)
        \/ PostPixel(c)
        \/ PostAd(c)
        \/ GenerateImage(c)
        \/ \E ok \in BOOLEAN : ImageGenerated(c, ok)
        \/ Read(c)
        \/ Receive(c)

SpecConcurrent == InitConcurrent /\ [][NextConcurrent]_vars

\* ------------------------------------------------------------------------
\* The agent and its environment
\* ------------------------------------------------------------------------

NextAgent == AgentNext(AgentEnv)

SpecAgent == Init /\ [][NextAgent]_vars

\* a reasoning service that asks for a list, for an image and its placement,
\* and for an image without naming the brand; a server that answers or
\* cannot be reached
FairEnv ==
    [choices |-> {<<Tool("list_brands", Undefined)>>,
                  <<GenerateBrewBox, PlaceMicro>>,
                  <<Tool("generate_ad_image", GenerateInput(Undefined, bold, micro)),
                    Tool("list_sizes", Undefined)>>},
     outcomes |-> {"ok", "threw"},
     snapshots |-> {},
     imageIds |-> {ImageId(1)},
     everyDraw |-> FALSE]

NextFair == AgentNext(FairEnv)

\* every call the agent awaits returns, and the agent goes on whenever it can
SpecAgentFair == Init /\ [][NextFair]_vars /\ WF_vars(NextFair)

SixPlacements == [i \in 1..6 |-> PlaceMicro]

\* a reasoning service that asks for many placements, and a server that
\* accepts them all: the placement history grows beyond the summary
HistoryEnv ==
    [choices |-> {<<GenerateBrewBox>> \o SixPlacements
                     \o <<GeneratePetPal>> \o SixPlacements,
                  <<GeneratePetPal>>,
                  <<PlaceMicro>>},
     outcomes |-> {"ok"},
     snapshots |-> {},
     imageIds |-> {ImageId(1)},
     everyDraw |-> FALSE]

NextHistory == AgentNext(HistoryEnv)

SpecHistory == Init /\ [][NextHistory]_vars

\* a reasoning service that asks for the place of a large rectangle, so
\* that every outcome of Math.random is drawn, and for a place without
\* saying the width; a grid that is empty, one with the cell (5, 5) painted
\* and one with the cell (25, 25) painted
LargeSide == Whole(970)
FindLarge == Tool("find_empty_space", FindInput(LargeSide, LargeSide))
FindNoWidth == Tool("find_empty_space", FindInput(Undefined, Whole(10)))

FindSnapshots ==
    {SnapshotOf({}),
     SnapshotOf({Key(5 * Unit, 5 * Unit)}),
     SnapshotOf({Key(25 * Unit, 25 * Unit)})}

FindEnv ==
    [choices |-> {<<FindLarge>>, <<FindNoWidth>>},
     outcomes |-> {"ok", "threw"},
     snapshots |-> FindSnapshots,
     imageIds |-> {ImageId(1)},
     everyDraw |-> TRUE]

NextFind == AgentNext(FindEnv)

SpecFind == Init /\ [][NextFind]_vars

\* a reasoning service that asks for two images and places the first, and a
\* server that hands out two handles and rejects some requests
RecordEnv ==
    [choices |-> {<<GenerateBrewBox, GeneratePetPal, PlaceMicro>>,
                  <<GenerateBrewBox, PlaceMicro>>,
                  <<GeneratePetPal>>,
                  <<PlaceMicro>>},
     outcomes |-> {"ok", "rejected"},
     snapshots |-> {},
     imageIds |-> {ImageId(1), ImageId(2)},
     everyDraw |-> FALSE]

NextRecord == AgentNext(RecordEnv)

SpecRecord == Init /\ [][NextRecord]_vars

\* ------------------------------------------------------------------------
\* Vocabulary of the properties
\* ------------------------------------------------------------------------

\* the exchanges a handler has answered (the gate answers 402)
Answered(route) ==
    {c \in DOMAIN inflight : /\ inflight[c].stage = "responded"
                   /\ inflight[c].req.route = route
                   /\ inflight[c].res.status # 402}

Accepted(route) == {c \in Answered(route) : inflight[c].res.status = 200}

\* two color strings denote the same RGB value
SameColor(a, b) == ToUpperCase(a.str) = ToUpperCase(b.str)

\* the owner a request names, "anonymous" when it names none
OwnerOf(b) == IF Truthy(b.owner) THEN b.owner ELSE ANONYMOUS

\* the coordinates of the grid inside the rectangle (x, y, width, height)
InsideRange(x, width) ==
    {i * Unit : i \in {j \in (x \div Unit)..((x + width) \div Unit) :
                          x <= j * Unit /\ j * Unit < x + width}}
CoordinatesInside(x, y, width, height) ==
    {Key(px, py) : px \in InsideRange(x, width), py \in InsideRange(y, height)}

\* the 1000 x 1000 coordinates of the grid are the integer pairs in range
IsGridCoordinate(k) ==
    /\ IsIntegerTicks(k[1]) /\ 0 <= k[1] /\ k[1] < CANVAS_WIDTH * Unit
    /\ IsIntegerTicks(k[2]) /\ 0 <= k[2] /\ k[2] < CANVAS_HEIGHT * Unit

\* ------------------------------------------------------------------------
\* C1
\* ------------------------------------------------------------------------

\* C1: last write wins.  For every coordinate whose most recent accepted
\* write is a paint (POST /pixel), the query of that coordinate
\* (GET /pixel/:x/:y with the x and y of the paint) answers "not available"
\* with the color and the owner of that paint.
C1_LastWriteWins ==
    \A k \in DOMAIN lastWrite :
        lastWrite[k].route = "POST /pixel" =>
            LET b == lastWrite[k].body
                r == PixelQuery(b.x, b.y, canvas)
            IN /\ r.status = 200
               /\ r.body.available = FALSE
               /\ SameColor(r.body.pixel.color, b.color)
               /\ r.body.pixel.owner = OwnerOf(b)

\* ------------------------------------------------------------------------
\* C2
\* ------------------------------------------------------------------------

\* C2: immediately after an accepted POST /ad of rectangle (x, y, width,
\* height), every coordinate inside the rectangle reports the id of the new
\* placement as its back-reference, and the returned placement has
\* pixels = width * height and totalCost = pixels * unit price.
C2_PlacementMarksRectangle ==
    \A c \in Accepted("POST /ad") :
        LET b == inflight[c].req.body
            p == inflight[c].res.body.placement
        IN /\ \A k \in CoordinatesInside(b.x.num, b.y.num, b.width.num, b.height.num) :
                LET r == PixelQuery(Num(k[1]), Num(k[2]), canvas)
                IN /\ r.status = 200
                   /\ r.body.available = FALSE
                   /\ r.body.pixel.adId = p.id
           /\ p.pixels * Unit * Unit = b.width.num * b.height.num
           /\ p.totalCost = p.pixels * PIXEL_PRICE

\* ------------------------------------------------------------------------
\* C3
\* ------------------------------------------------------------------------

\* C3: in every reachable state, every cell inside the rectangle of every
\* placement of the ledger carries the id of that placement as its
\* back-reference.
C3_LedgerBackReferences ==
    \A i \in 1..Len(adPlacements) :
        LET p == adPlacements[i] IN
        \A k \in AdKeys(p.x.num, p.y.num, p.width.num, p.height.num) :
            /\ k \in DOMAIN canvas
            /\ canvas[k].adId = p.id

\* ------------------------------------------------------------------------
\* C4
\* ------------------------------------------------------------------------

\* the coordinates a step paints for the first time
NewlyPainted == DOMAIN canvas' \ DOMAIN canvas

\* C4: every step (so every accepted paint and every accepted placement)
\* raises the cells-sold counter by exactly the number of coordinates it
\* painted for the first time and the revenue counter by that number times
\* the unit price; neither counter ever decreases, and a write that touches
\* only painted coordinates leaves both unchanged.  An accepted placement
\* reports that number as newPixels.
C4_CountersGrowByNewPixels ==
    [][ /\ totalPixelsSold' = totalPixelsSold + Cardinality(NewlyPainted)
        /\ totalRevenue' = totalRevenue + Cardinality(NewlyPainted) * PIXEL_PRICE
        /\ totalPixelsSold' >= totalPixelsSold
        /\ totalRevenue' >= totalRevenue
        /\ DOMAIN canvas \subseteq DOMAIN canvas'
        /\ \A c \in Conns :
              (inflight[c].stage # "responded" /\ c \in Accepted("POST /ad")')
                 => inflight'[c].res.body.newPixels = Cardinality(NewlyPainted)
      ]_vars

\* C4 witness: a paint of (0,0) has just been accepted while a placement
\* covers (0,0), and the counters still stand at the 100 cells of that one
\* placement: the repaint of a painted coordinate added nothing.
C4_Witness ==
    /\ Len(adPlacements) = 1
    /\ adPlacements[1].x = Whole(0)
    /\ totalPixelsSold = 100
    /\ totalRevenue = 100 * PIXEL_PRICE
    /\ \E c \in Accepted("POST /pixel") :
          /\ inflight[c].req.body.x = Whole(0)
          /\ canvas[Key(0, 0)].adId = Undefined

\* ------------------------------------------------------------------------
\* C5
\* ------------------------------------------------------------------------

\* the counters agree with the map: cells-sold is the number of keys held,
\* revenue is cells-sold times the unit price
CountersMatchStore ==
    /\ totalPixelsSold = Cardinality(DOMAIN canvas)
    /\ totalRevenue = totalPixelsSold * PIXEL_PRICE

\* C5: in every reachable state the cells-sold counter is the number of
\* distinct coordinates held in the grid store and revenue is cells-sold
\* times the unit price; the cells held are coordinates of the 1000 x 1000
\* grid, so that cells-sold never exceeds 1000 * 1000 and the
\* pixelsRemaining of the stats endpoint is never negative.
C5_CountersMatchGrid ==
    /\ CountersMatchStore
    /\ \A k \in DOMAIN canvas : IsGridCoordinate(k)
    /\ totalPixelsSold <= CANVAS_WIDTH * CANVAS_HEIGHT
    /\ InfoStats(totalPixelsSold, totalRevenue, adPlacements).pixelsRemaining >= 0

\* ------------------------------------------------------------------------
\* C9
\* ------------------------------------------------------------------------

\* the grid, the ledger and the counters
paidState == <<canvas, adPlacements, totalRevenue, totalPixelsSold>>

C10_AdPricedPerPixel ==
    \A c \in Accepted("POST /ad") :
        LET b == inflight[c].req.body
            p == inflight[c].res.body.placement
        IN /\ inflight[c].required * Unit * Unit
                = b.width.num * b.height.num * PIXEL_PRICE
           /\ inflight[c].required = p.totalCost

\* ------------------------------------------------------------------------
\* The failure kinds of the error taxonomy
\* ------------------------------------------------------------------------

\* the failure kind an error message of the server stands for
KindOf(msg) ==
    CASE msg = "x, y, width, and height must be numbers" -> "InvalidInput"
      [] msg = "x and y must be numbers" -> "InvalidInput"
      [] msg = "Minimum ad size is 10x10 pixels (like the original Million Dollar Homepage)"
            -> "TooSmall"
      [] msg = "Maximum ad size is 100x100 pixels" -> "TooLarge"
      [] msg = "Ad dimensions must be multiples of 10" -> "Misaligned"
      [] msg = "Ad must fit within canvas bounds" -> "OutOfBounds"
      [] msg = "Coordinates must be within (0-999, 0-999)" -> "OutOfBounds"
      [] msg = "Color must be a valid hex color (e.g., #FF0000)" -> "InvalidColor"
      [] msg = "imageId is required (use /generate-image first)" -> "UnknownImage"
      [] msg = "Invalid imageId - image not found" -> "UnknownImage"
      [] msg = "linkUrl is required" -> "InvalidInput"
      [] msg = "title is required (shown on hover)" -> "InvalidInput"
      [] OTHER -> "Other"

\* the outcome of an answered exchange: "Accepted" or its failure kind
Outcome(c) ==
    IF inflight[c].res.status = 200 THEN "Accepted"
    ELSE KindOf(inflight[c].res.body.error)

\* the conditions of the placement rules, on a request body
NumericArgs(b) ==
    IsNumber(b.x) /\ IsNumber(b.y) /\ IsNumber(b.width) /\ IsNumber(b.height)
SideBelow10(b) == b.width.num < 10 * Unit \/ b.height.num < 10 * Unit
SideAbove100(b) == b.width.num > 100 * Unit \/ b.height.num > 100 * Unit
SideNotMultipleOf10(b) ==
    b.width.num % (10 * Unit) # 0 \/ b.height.num % (10 * Unit) # 0
OutsideGrid(b) ==
    \/ b.x.num < 0 \/ b.y.num < 0
    \/ b.x.num + b.width.num > CANVAS_WIDTH * Unit
    \/ b.y.num + b.height.num > CANVAS_HEIGHT * Unit
ImageUnresolved(b) == ~IsString(b.imageId) \/ b.imageId \notin generatedImages
LinkOrTitleEmpty(b) ==
    \/ ~IsString(b.linkUrl) \/ b.linkUrl = Empty
    \/ ~IsString(b.title) \/ b.title = Empty

\* ------------------------------------------------------------------------
\* C6
\* ------------------------------------------------------------------------

\* C6 as stated: a placement with numeric arguments is rejected with
\* TooSmall whenever a side is < 10, with TooLarge whenever both sides are
\* >= 10 and a side is > 100 (multiple of 10 or not), with Misaligned
\* whenever both sides are within 10..100 and a side is no multiple of 10,
\* and with OutOfBounds whenever the size is within policy and the
\* rectangle leaves the grid.
C6_SizeRulesAsStated ==
    \A c \in Answered("POST /ad") :
        LET b == inflight[c].req.body IN
        NumericArgs(b) =>
            /\ SideBelow10(b) => Outcome(c) = "TooSmall"
            /\ (~SideBelow10(b) /\ SideAbove100(b)) => Outcome(c) = "TooLarge"
            /\ (~SideBelow10(b) /\ ~SideAbove100(b) /\ SideNotMultipleOf10(b))
                  => Outcome(c) = "Misaligned"
            /\ (~SideBelow10(b) /\ ~SideAbove100(b) /\ ~SideNotMultipleOf10(b)
                  /\ OutsideGrid(b)) => Outcome(c) = "OutOfBounds"

\* C6 amended: a placement with numeric arguments is rejected with TooSmall
\* whenever a side is < 10, with Misaligned whenever both sides are >= 10
\* and a side is no multiple of 10 (also when a side is > 100), with
\* TooLarge whenever both sides are multiples of 10 and >= 10 and a side is
\* > 100, and with OutOfBounds whenever the size is within policy and the
\* rectangle leaves the grid.
C6_SizeRules ==
    \A c \in Answered("POST /ad") :
        LET b == inflight[c].req.body IN
        NumericArgs(b) =>
            /\ SideBelow10(b) => Outcome(c) = "TooSmall"
            /\ (~SideBelow10(b) /\ SideNotMultipleOf10(b))
                  => Outcome(c) = "Misaligned"
            /\ (~SideBelow10(b) /\ ~SideNotMultipleOf10(b) /\ SideAbove100(b))
                  => Outcome(c) = "TooLarge"
            /\ (~SideBelow10(b) /\ ~SideAbove100(b) /\ ~SideNotMultipleOf10(b)
                  /\ OutsideGrid(b)) => Outcome(c) = "OutOfBounds"

\* C6 witness: a 105 x 10 placement (a side above 100 that is no multiple
\* of 10) has been rejected as Misaligned, and the placement sits at
\* (990, 990), outside the grid as well.
C6_Witness ==
    \E c \in Answered("POST /ad") :
        /\ inflight[c].req.body.width = Whole(105)
        /\ inflight[c].req.body.height = Whole(10)
        /\ inflight[c].req.body.x = Whole(990)
        /\ inflight[c].req.body.y = Whole(990)
        /\ Outcome(c) = "Misaligned"

\* ------------------------------------------------------------------------
\* C7
\* ------------------------------------------------------------------------

\* the kind of the first failing check of a list of <<fails, kind>> pairs,
\* "Accepted" when no check fails
RECURSIVE FirstFailure(_)
FirstFailure(checks) ==
    IF checks = <<>> THEN "Accepted"
    ELSE IF Head(checks)[1] THEN Head(checks)[2]
    ELSE FirstFailure(Tail(checks))

\* C7 as stated: the failure reported is the first failing check in the
\* order InvalidInput (non-numeric), TooSmall, TooLarge, Misaligned,
\* OutOfBounds, UnknownImage, InvalidInput (empty linkUrl or title).
C7_ValidationOrderAsStated ==
    \A c \in Answered("POST /ad") :
        LET b == inflight[c].req.body IN
        Outcome(c) =
            IF ~NumericArgs(b) THEN "InvalidInput"
            ELSE FirstFailure(<<
                <<SideBelow10(b), "TooSmall">>,
                <<SideAbove100(b), "TooLarge">>,
                <<SideNotMultipleOf10(b), "Misaligned">>,
                <<OutsideGrid(b), "OutOfBounds">>,
                <<ImageUnresolved(b), "UnknownImage">>,
                <<LinkOrTitleEmpty(b), "InvalidInput">> >>)

\* C7 amended: the failure reported is the first failing check in the
\* order InvalidInput (non-numeric), TooSmall, Misaligned, TooLarge,
\* OutOfBounds, UnknownImage, InvalidInput (empty linkUrl or title).
C7_ValidationOrder ==
    \A c \in Answered("POST /ad") :
        LET b == inflight[c].req.body IN
        Outcome(c) =
            IF ~NumericArgs(b) THEN "InvalidInput"
            ELSE FirstFailure(<<
                <<SideBelow10(b), "TooSmall">>,
                <<SideNotMultipleOf10(b), "Misaligned">>,
                <<SideAbove100(b), "TooLarge">>,
                <<OutsideGrid(b), "OutOfBounds">>,
                <<ImageUnresolved(b), "UnknownImage">>,
                <<LinkOrTitleEmpty(b), "InvalidInput">> >>)

\* C7 witness: a request that breaks five rules at once (a 105 x 110
\* rectangle: too large and no multiple of 10, at (990, 990), with an
\* unknown image and an empty linkUrl) has been rejected as Misaligned.
C7_Witness ==
    \E c \in Answered("POST /ad") :
        LET b == inflight[c].req.body IN
        /\ b.width = Whole(105) /\ b.height = Whole(110)
        /\ b.x = Whole(990) /\ b.y = Whole(990)
        /\ b.imageId = UnknownImageId
        /\ b.linkUrl = Empty
        /\ Outcome(c) = "Misaligned"

\* ------------------------------------------------------------------------
\* C8
\* ------------------------------------------------------------------------

InRange(b) ==
    /\ 0 <= b.x.num /\ b.x.num < CANVAS_WIDTH * Unit
    /\ 0 <= b.y.num /\ b.y.num < CANVAS_HEIGHT * Unit
ColorMatches(b) == IsString(b.color) /\ MatchesHexColor(b.color.str)

\* C8: a paint that reaches its handler is accepted exactly when x and y
\* are numbers with 0 <= x < 1000 and 0 <= y < 1000 and the color is '#'
\* followed by 6 hex digits; with numeric x and y it fails with OutOfBounds
\* when x or y is outside that range (x = 1000 and y = 1000 included), and
\* with coordinates in range it fails with InvalidColor when the color does
\* not match.
C8_PaintValidation ==
    \A c \in Answered("POST /pixel") :
        LET b == inflight[c].req.body
            numeric == IsNumber(b.x) /\ IsNumber(b.y)
        IN /\ Outcome(c) = "Accepted" <=> (numeric /\ InRange(b) /\ ColorMatches(b))
           /\ (numeric /\ ~InRange(b)) => Outcome(c) = "OutOfBounds"
           /\ (numeric /\ InRange(b) /\ ~ColorMatches(b)) => Outcome(c) = "InvalidColor"
           /\ inflight[c].res.status \in {200, 400}

\* C8 witness: a paint of (1000, 0) with a valid color has been rejected as
\* OutOfBounds.
C8_Witness ==
    \E c \in Answered("POST /pixel") :
        /\ inflight[c].req.body.x = Whole(1000)
        /\ inflight[c].req.body.y = Whole(0)
        /\ inflight[c].req.body.color = RED
        /\ Outcome(c) = "OutOfBounds"

\* ------------------------------------------------------------------------
\* C11
\* ------------------------------------------------------------------------

\* the exchanges a step answers with 200 on a route
AcceptedNow(route) ==
    {c \in DOMAIN inflight : inflight[c].stage # "responded" /\ c \in Accepted(route)'}

\* C11: the placement ledger is append-only and ordered.  Every step either
\* leaves the ledger as it is or is the accepting step of one POST /ad and
\* appends exactly the returned placement at the end; an accepted POST /ad
\* lengthens the ledger by one; and GET /ads answers the records in the
\* order of the ledger, which is the order of creation.
C11_LedgerAppendOnly ==
    [][ /\ \/ adPlacements' = adPlacements
           \/ \E c \in AcceptedNow("POST /ad") :
                 adPlacements' = Append(adPlacements, inflight'[c].res.body.placement)
        /\ \A c \in AcceptedNow("POST /ad") :
              Len(adPlacements') = Len(adPlacements) + 1
        /\ \A c \in AcceptedNow("GET /ads") :
              /\ inflight'[c].res.body.placements = adPlacements
              /\ inflight'[c].res.body.total = Len(adPlacements)
      ]_vars

\* C11 witness: GET /ads has answered two placements, the older one first.
C11_Witness ==
    \E c \in Accepted("GET /ads") :
        LET listed == inflight[c].res.body.placements IN
        /\ Len(listed) = 2
        /\ listed[1].id = AdId(1)
        /\ listed[2].id = AdId(2)
        /\ listed = adPlacements

\* ------------------------------------------------------------------------
\* C12
\* ------------------------------------------------------------------------

\* the exchanges that differ between the two states of a step
Moved == {c \in DOMAIN inflight : inflight'[c] # inflight[c]}

\* the ids of the ledger
LedgerIds == {adPlacements[i].id : i \in 1..Len(adPlacements)}

\* every cell of every recorded rectangle is painted, and every
\* back-reference held by a cell names a record of the ledger
LedgerAndGridAgree ==
    /\ \A i \in 1..Len(adPlacements) :
          LET p == adPlacements[i] IN
          CoordinatesInside(p.x.num, p.y.num, p.width.num, p.height.num)
              \subseteq DOMAIN canvas
    /\ \A k \in DOMAIN canvas :
          canvas[k].adId # Undefined => canvas[k].adId \in LedgerIds

\* C12: a placement is created atomically, with several requests in flight
\* at once.  In every state the grid and the ledger agree (no rectangle of a
\* recorded placement is partly painted, no cell refers to a placement that
\* is not recorded).  The step that appends a record is the step of one
\* exchange only and, in that same step, paints every cell of the rectangle
\* with the new id and raises both counters by the number of new cells.
\* Every step that changes the stores belongs to one exchange.  What a read
\* answers is the state of the stores of one moment: a snapshot holds every
\* cell of every placement recorded then, and a back-reference answered by
\* a query names a placement recorded then.
C12_PlacementAtomic ==
    /\ []LedgerAndGridAgree
    /\ [][ adPlacements' # adPlacements =>
             \E c \in AcceptedNow("POST /ad") :
                LET b == inflight[c].req.body
                    p == inflight'[c].res.body.placement
                    cells == CoordinatesInside(b.x.num, b.y.num, b.width.num, b.height.num)
                    fresh == cells \ DOMAIN canvas
                IN /\ Moved = {c}
                   /\ adPlacements' = Append(adPlacements, p)
                   /\ \A k \in cells : k \in DOMAIN canvas' /\ canvas'[k].adId = p.id
                   /\ \A k \in DOMAIN canvas' \ cells :
                         k \in DOMAIN canvas /\ canvas'[k] = canvas[k]
                   /\ totalPixelsSold' = totalPixelsSold + Cardinality(fresh)
                   /\ totalRevenue' = totalRevenue + Cardinality(fresh) * PIXEL_PRICE
          ]_vars
    /\ [][ store' # store =>
             \E c \in DOMAIN inflight :
                /\ Moved = {c}
                /\ inflight'[c].stage = "responded"
                /\ inflight'[c].res.status = 200 ]_vars
    /\ [][ /\ \A c \in AcceptedNow("GET /canvas") :
                \A i \in 1..Len(adPlacements) :
                    LET p == adPlacements[i] IN
                    \A k \in CoordinatesInside(p.x.num, p.y.num, p.width.num, p.height.num) :
                        \E px \in inflight'[c].res.body.pixels :
                            px.x = Num(k[1]) /\ px.y = Num(k[2])
           /\ \A c \in AcceptedNow("GET /pixel") :
                LET r == inflight'[c].res.body IN
                (~r.available /\ r.pixel.adId # Undefined) => r.pixel.adId \in LedgerIds
          ]_vars

\* C12 witness: two placements were in flight at once and both have been
\* accepted; their rectangles overlap, and both answers are still unread.
C12_Witness ==
    /\ Len(adPlacements) = 2
    /\ \A c \in Clients : c \in Accepted("POST /ad")
    /\ adPlacements[1].x # adPlacements[2].x
    /\ canvas[Key(5 * Unit, 0)].adId = AdId(2)

\* ------------------------------------------------------------------------
\* C19
\* ------------------------------------------------------------------------

\* C19: no ownership or conflict check.  Whenever the handler of POST /pixel
\* answers a request whose x and y are numbers in range and whose color
\* matches, it accepts it and the cell then holds the color and the owner
\* of the request and no back-reference, whatever the cell held before.
C19_NoOwnershipCheck ==
    [][ \A c \in DOMAIN inflight :
          LET b == inflight[c].req.body IN
          (/\ inflight[c].stage = "paid"
           /\ inflight[c].req.route = "POST /pixel"
           /\ inflight'[c].stage = "responded"
           /\ IsNumber(b.x) /\ IsNumber(b.y)
           /\ InRange(b) /\ ColorMatches(b))
          => /\ inflight'[c].res.status = 200
             /\ Key(b.x.num, b.y.num) \in DOMAIN canvas'
             /\ SameColor(canvas'[Key(b.x.num, b.y.num)].color, b.color)
             /\ canvas'[Key(b.x.num, b.y.num)].owner = OwnerOf(b)
             /\ canvas'[Key(b.x.num, b.y.num)].adId = Undefined
      ]_vars

\* C19 witness: an anonymous paint of (0,0) has been accepted on a cell that
\* belonged to the placement of another owner, and has replaced it.
C19_Witness ==
    \E c \in Accepted("POST /pixel") :
        /\ inflight[c].req.body.x = Whole(0)
        /\ inflight[c].req.body.owner = Undefined
        /\ Len(adPlacements) >= 1
        /\ adPlacements[1].x = Whole(0)
        /\ adPlacements[1].owner = OwnerB
        /\ canvas[Key(0, 0)].owner = ANONYMOUS
        /\ canvas[Key(1 * Unit, 0)].owner = OwnerB

\* ------------------------------------------------------------------------
\* C20
\* ------------------------------------------------------------------------

\* C20: an image handle is referenced by at most one placement of the
\* ledger.
C20_ImageHandleUsedOnce ==
    \A i, j \in 1..Len(adPlacements) :
        i # j => adPlacements[i].imageId # adPlacements[j].imageId

\* ------------------------------------------------------------------------
\* C13
\* ------------------------------------------------------------------------

\* the call that ran last has returned the last result of toolResults
Returned(name) ==
    /\ call.kind = "returned"
    /\ call.block.name = name
    /\ toolResults # <<>>
    /\ toolResults[Len(toolResults)].tool_use_id = call.block.id

LastResult == toolResults[Len(toolResults)].content

\* a find_empty_space(10, 10) has returned after it fetched the snapshot of
\* an empty grid
FoundOnEmptyGrid ==
    /\ Returned("find_empty_space")
    /\ call.block.input = FindInput(Whole(10), Whole(10))
    /\ call.response.kind = "ok"
    /\ call.response.data.pixels = {}

\* C13: on an empty grid and with the snapshot fetched, findEmptySpace(10,
\* 10) returns found: true with x and y multiples of 10 and the 10 x 10
\* rectangle inside the grid, whatever the sampling and the shuffle draw.
C13_FindsSpaceOnEmptyGrid ==
    FoundOnEmptyGrid =>
        /\ LastResult.found
        /\ IsNumber(LastResult.x) /\ IsNumber(LastResult.y)
        /\ LastResult.x.num % (10 * Unit) = 0
        /\ LastResult.y.num % (10 * Unit) = 0
        /\ 0 <= LastResult.x.num /\ LastResult.x.num + 10 * Unit <= 1000 * Unit
        /\ 0 <= LastResult.y.num /\ LastResult.y.num + 10 * Unit <= 1000 * Unit

\* C13 witness: on the empty grid the call has returned the position
\* (980, 0), drawn from the greatest random outcome for x.
C13_Witness ==
    /\ FoundOnEmptyGrid
    /\ LastResult.found
    /\ LastResult.x = Whole(980)
    /\ LastResult.y = Whole(0)

\* ------------------------------------------------------------------------
\* C14
\* ------------------------------------------------------------------------

BlockIds(blocks) == [i \in 1..Len(blocks) |-> blocks[i].id]
ResultIds(results) == [i \in 1..Len(results) |-> results[i].tool_use_id]

IsPrefix(s, t) == Len(s) <= Len(t) /\ s = SubSeq(t, 1, Len(s))

\* the positions of runAgentLoop inside the for loop over the blocks
InToolLoop(p) == p \in {"tools", "awaiting", "resumed"}

\* the blocks are taken in the requested order, each at most once, a block
\* is started only after its predecessor has returned, and every reasoning
\* request after the first of a round ends with the assistant message and
\* the results of all its blocks, tagged with their ids in order
ToolsRunInOrder ==
    /\ IsPrefix(executed, BlockIds(toolUseBlocks))
    /\ IsPrefix(ResultIds(toolResults), executed)
    /\ Len(executed) <= Len(toolResults) + 1
    /\ (pc = "reasoning" /\ Len(conversationHistory) > 1) =>
          LET n == Len(conversationHistory)
              asked == conversationHistory[n - 1]
              answered == conversationHistory[n]
          IN /\ asked.role = "assistant"
             /\ answered.role = "user"
             /\ ResultIds(answered.content) = BlockIds(asked.content)

\* C14: in every reasoning step the agent executes every requested action
\* exactly once and in the requested order: when it leaves the loop over
\* the blocks of a response, processToolCall has been called for every
\* block and every block has its result; and the next reasoning request is
\* sent only with a result for each block, tagged with the matching id.
C14_EveryActionExecuted ==
    /\ []ToolsRunInOrder
    /\ [][ (InToolLoop(pc) /\ ~InToolLoop(pc')) =>
             /\ executed' = BlockIds(toolUseBlocks)
             /\ ResultIds(toolResults') = BlockIds(toolUseBlocks) ]_vars

\* ------------------------------------------------------------------------
\* C15
\* ------------------------------------------------------------------------

\* JSON with an error field
IsErrorPayload(content) == "error" \in DOMAIN content

\* the call that ran last failed: the server rejected it or the fetch threw
CallFailed ==
    /\ call.kind = "returned"
    /\ call.response.kind \in {"rejected", "threw"}
    /\ toolResults # <<>>
    /\ toolResults[Len(toolResults)].tool_use_id = call.block.id

\* C15: every action failure becomes an error payload that is the action's
\* result, and the reasoning loop goes on.  The result of an unknown tool
\* and the result of a rejected or failed request are error payloads; and
\* no step inside the loop over the blocks ends the round: the loop is left
\* only for the next reasoning request, with every result collected.
C15_FailuresBecomeResults ==
    /\ [](\A i \in 1..Len(toolResults) :
            toolUseBlocks[i].name = "fly" => IsErrorPayload(toolResults[i].content))
    /\ [](CallFailed => IsErrorPayload(LastResult))
    /\ [][ InToolLoop(pc) =>
             \/ InToolLoop(pc')
             \/ pc' = "reasoning" /\ Len(toolResults) = Len(toolUseBlocks) ]_vars

\* ------------------------------------------------------------------------
\* C16
\* ------------------------------------------------------------------------

\* the positions of runAgentLoop
AgentPositions == {"round", "reasoning", "tools", "awaiting", "resumed", "sleeping"}

\* the step in which anthropic.messages.create throws
ReasoningFailsNow ==
    /\ lastError' # lastError
    /\ lastError'.thrownBy = "reasoning"

\* round r ended with a failure of the reasoning call and is at its wait
FailedRound(r) ==
    /\ currentRound = r
    /\ pc = "sleeping"
    /\ lastError = [round |-> r, thrownBy |-> "reasoning"]

\* C16: a failure of the reasoning call ends the round early: the agent goes
\* to the inter-round wait in the same round, and after the wait it starts
\* the next round with the round number raised by 1.  No failure takes the
\* agent out of runAgentLoop, the round number changes only at the top of
\* the outer loop and only by 1, and every round is followed by the next.
C16_RoundsGoOn ==
    /\ [](pc \in AgentPositions)
    /\ [][ ReasoningFailsNow =>
             /\ pc = "reasoning" /\ pc' = "sleeping"
             /\ currentRound' = currentRound ]_vars
    /\ [][ pc = "sleeping" => (pc' = "round" /\ currentRound' = currentRound) ]_vars
    /\ [][ currentRound' # currentRound =>
             /\ pc = "round" /\ pc' = "reasoning"
             /\ currentRound' = currentRound + 1 ]_vars
    /\ \A r \in 1..(MaxRounds - 1) :
          FailedRound(r) ~> (currentRound = r + 1 /\ pc = "reasoning")
    /\ \A r \in 0..(MaxRounds - 1) :
          (currentRound = r) ~> (currentRound = r + 1)

\* C16 witness: the first round ended with a failure of the reasoning call
\* and the second round is at its first reasoning request.
C16_Witness ==
    /\ currentRound = 2
    /\ pc = "reasoning"
    /\ lastError = [round |-> 1, thrownBy |-> "reasoning"]

\* ------------------------------------------------------------------------
\* C17
\* ------------------------------------------------------------------------

\* the entry was recorded before the current round started
RecordedBefore(entry) == entry.round < currentRound

PlacedBefore == SelectSeq(placedAdsHistory, RecordedBefore)

Least(a, b) == IF a <= b THEN a ELSE b

\* C17: the summary in the instructions of the current round lists at most
\* 10 entries: the most recent min(10, k) of the k placements recorded
\* before the round started, oldest first.  A placement recorded during the
\* round is not in them.
C17_HistorySummary ==
    currentRound >= 1 =>
        LET k == Len(PlacedBefore)
            n == Len(systemPrompt)
        IN /\ n <= 10
           /\ n = Least(10, k)
           /\ \A i \in 1..n : systemPrompt[i] = PlacedBefore[k - n + i]

\* C17 witness: the second round started after 12 placements, its summary
\* has 10 entries which are not the 10 oldest, and a placement has been
\* recorded during the round.
C17_Witness ==
    /\ currentRound = 2
    /\ Len(PlacedBefore) = 12
    /\ Len(systemPrompt) = 10
    /\ systemPrompt # SubSeq(placedAdsHistory, 1, 10)
    /\ Len(placedAdsHistory) > Len(PlacedBefore)

\* ------------------------------------------------------------------------
\* C18
\* ------------------------------------------------------------------------

\* the message is an assistant message or a list of tool results whose ids
\* were issued in round `round`
MessageOfRound(m, round) ==
    /\ m.role \in {"assistant", "user"}
    /\ m.role = "assistant" =>
          \A i \in 1..Len(m.content) : m.content[i].id[1] = round
    /\ m.role = "user" =>
          \A i \in 1..Len(m.content) :
              /\ m.content[i].type = "tool_result"
              /\ m.content[i].tool_use_id[1] = round

\* the conversation a reasoning request sends belongs to the current round
\* alone: the prompt of the round, then messages of the round
ContextOfRound ==
    pc = "reasoning" =>
        /\ conversationHistory[1] = UserPrompt(currentRound)
        /\ \A i \in 2..Len(conversationHistory) :
              MessageOfRound(conversationHistory[i], currentRound)

\* C18: each round starts a fresh reasoning context.  The first reasoning
\* request of a round sends exactly one message, the user message of that
\* round, and no request sends a message of an earlier round.
C18_FreshContext ==
    /\ []ContextOfRound
    /\ [][ currentRound' # currentRound =>
             /\ pc' = "reasoning"
             /\ conversationHistory' = <<UserPrompt(currentRound')>> ]_vars

\* C18 witness: after a first round with a tool exchange that placed an ad,
\* the second round is at its first reasoning request with one message.
C18_Witness ==
    /\ currentRound = 2
    /\ pc = "reasoning"
    /\ conversationHistory = <<UserPrompt(2)>>
    /\ placedAdsHistory # <<>>

\* ------------------------------------------------------------------------
\* C21
\* ------------------------------------------------------------------------

\* a find_empty_space call has returned found: true
FoundSpace ==
    /\ Returned("find_empty_space")
    /\ call.response.kind = "ok"
    /\ LastResult.found

\* no cell of the snapshot lies in the rectangle (numbers in ticks)
RectangleVacant(x, y, width, height, snapshot) ==
    \A p \in snapshot.pixels :
        ~(/\ x.num <= p.x.num /\ p.x.num < x.num + width.num
          /\ y.num <= p.y.num /\ p.y.num < y.num + height.num)

\* the answer is a place on the 10-pixel grid, inside the grid, and vacant
\* in the snapshot the call fetched
AnswerIsVacantPlace ==
    LET x == LastResult.x
        y == LastResult.y
        width == call.block.input.width
        height == call.block.input.height
    IN /\ IsNumber(x) /\ IsNumber(y)
       /\ x.num % (10 * Unit) = 0 /\ y.num % (10 * Unit) = 0
       /\ 0 <= x.num /\ 0 <= y.num
       /\ IsNumber(width) /\ IsNumber(height)
       /\ x.num + width.num <= 1000 * Unit
       /\ y.num + height.num <= 1000 * Unit
       /\ RectangleVacant(x, y, width, height, call.response.data)

\* a step of a find_empty_space call: its start, the answer to its fetch,
\* its return
FindStep ==
    /\ call' # call
    /\ call'.kind \in {"http", "returned"}
    /\ call'.block.name = "find_empty_space"

\* C21 for numbers: when width and height are numbers, a found: true answer
\* is a vacant place on the 10-pixel grid inside the grid
FoundSpaceIsVacantForNumbers ==
    (/\ FoundSpace
     /\ IsNumber(call.block.input.width)
     /\ IsNumber(call.block.input.height)) => AnswerIsVacantPlace

\* C21: whenever findEmptySpace(width, height) returns found: true with
\* (x, y), x and y are multiples of 10, 0 <= x, 0 <= y, x + width <= 1000,
\* y + height <= 1000, and no cell of the rectangle is painted in the
\* snapshot the call fetched; the call changes no grid, ledger or agent
\* state.
C21_FoundSpaceIsVacant ==
    /\ [](FoundSpace => AnswerIsVacantPlace)
    /\ [][ FindStep =>
             UNCHANGED <<serverVars, currentRound, placedAdsHistory, lastGeneratedAd,
                         systemPrompt, conversationHistory>> ]_vars

\* ------------------------------------------------------------------------
\* C22
\* ------------------------------------------------------------------------

\* the multiples of 10 of 0..limit
AlignedUpTo(limit) == {v \in 0..limit : v % 10 = 0}

\* a find_empty_space for a rectangle with sides that are multiples of 10
\* is about to return, and the snapshot it fetched is empty
AboutToFindOnEmptyGrid ==
    /\ pc = "resumed"
    /\ call.block.name = "find_empty_space"
    /\ call.response.kind = "ok"
    /\ call.response.data.pixels = {}
    /\ IsNumber(call.block.input.width) /\ IsNumber(call.block.input.height)
    /\ call.block.input.width.num % (10 * Unit) = 0
    /\ call.block.input.height.num % (10 * Unit) = 0

\* the answer found: true at (x, y) to the running call
FoundAt(x, y) ==
    [found |-> TRUE, x |-> Whole(x), y |-> Whole(y),
     width |-> call.block.input.width, height |-> call.block.input.height]

\* every place of xs x ys is an answer the running call can return
CanReturnEvery(xs, ys) ==
    \A x \in xs, y \in ys : FoundAt(x, y) \in ResumeResults(call, FindEnv)

\* the aligned places short of the last column and the last row are all
\* possible answers
InnerPlacesPossible ==
    AboutToFindOnEmptyGrid =>
        LET w == call.block.input.width.num \div Unit
            h == call.block.input.height.num \div Unit
        IN CanReturnEvery(AlignedUpTo(1000 - w - 10), AlignedUpTo(1000 - h - 10))

\* C22: for a width x height request (multiples of 10) on an empty grid,
\* every aligned place with 0 <= x <= 1000 - width and 0 <= y <= 1000 -
\* height, x = 1000 - width and y = 1000 - height included, is a possible
\* answer of findEmptySpace.
C22_WholeRangeSampled ==
    AboutToFindOnEmptyGrid =>
        LET w == call.block.input.width.num \div Unit
            h == call.block.input.height.num \div Unit
        IN CanReturnEvery(AlignedUpTo(1000 - w), AlignedUpTo(1000 - h))

\* ------------------------------------------------------------------------
\* C23
\* ------------------------------------------------------------------------

\* a find_empty_space for numbers width and height is about to return
AboutToFind ==
    /\ pc = "resumed"
    /\ call.block.name = "find_empty_space"
    /\ call.response.kind = "ok"
    /\ IsNumber(call.block.input.width) /\ IsNumber(call.block.input.height)

\* the aligned places where the rectangle of the call lies inside the grid
\* and is vacant in the snapshot the call fetched
VacantPlaces ==
    LET width == call.block.input.width
        height == call.block.input.height
    IN {p \in AlignedUpTo(1000 - width.num \div Unit)
              \X AlignedUpTo(1000 - height.num \div Unit) :
           RectangleVacant(Whole(p[1]), Whole(p[2]), width, height, call.response.data)}

\* the places a call can draw where the rectangle is not vacant
BlockedDraws ==
    LET width == call.block.input.width
        height == call.block.input.height
    IN {c \in CandidatePositions(width.num \div Unit, height.num \div Unit,
                                 FindEnv.everyDraw) :
           ~RectangleVacant(Whole(c.x), Whole(c.y), width, height, call.response.data)}

\* C23: findEmptySpace is best-effort.  Whenever a place it can draw is
\* not vacant, it can answer found: false; it does so also on a grid with
\* a vacant aligned rectangle, where another call with the same inputs on
\* the same grid answers found: true.
C23_BestEffort ==
    (AboutToFind /\ BlockedDraws # {}) =>
        /\ [found |-> FALSE] \in ResumeResults(call, FindEnv)
        /\ \A p \in VacantPlaces :
              \/ FoundAt(p[1], p[2]) \in ResumeResults(call, FindEnv)
              \/ p[1] = 1000 - call.block.input.width.num \div Unit
              \/ p[2] = 1000 - call.block.input.height.num \div Unit

\* C23 witness: a call has answered found: false although a vacant aligned
\* rectangle exists on the grid it fetched, and the same call on the same
\* grid can answer found: true.
C23_Witness ==
    /\ Returned("find_empty_space")
    /\ call.response.kind = "ok"
    /\ IsNumber(call.block.input.width) /\ IsNumber(call.block.input.height)
    /\ LastResult = [found |-> FALSE]
    /\ VacantPlaces # {}
    /\ \E r \in ResumeResults(call, FindEnv) : r.found

\* ------------------------------------------------------------------------
\* C24
\* ------------------------------------------------------------------------

\* the step in which a response with another stop reason than tool_use
\* arrives: the reasoning request is over, no tool is requested and
\* nothing was thrown
NoFurtherActionsNow ==
    /\ pc = "reasoning"
    /\ pc' \notin {"reasoning", "tools"}
    /\ lastError' = lastError

\* C24: when a response signals that there are no further actions, the
\* agent executes no action for it and leaves the inner loop for the
\* inter-round wait; after the wait the round is over and the next one
\* starts.  Every round whose reasoning loop ends comes to its end.
C24_RoundEnds ==
    /\ [][ NoFurtherActionsNow =>
             /\ pc' = "sleeping"
             /\ UNCHANGED <<executed, toolUseBlocks, toolResults, call,
                            conversationHistory, currentRound, placedAdsHistory,
                            lastGeneratedAd, serverVars>> ]_vars
    /\ [][ pc = "sleeping" =>
             /\ pc' = "round"
             /\ UNCHANGED <<currentRound, placedAdsHistory, lastGeneratedAd,
                            serverVars>> ]_vars
    /\ \A r \in 1..MaxRounds :
          (currentRound = r /\ pc = "reasoning") ~> (currentRound = r /\ pc = "round")
    /\ \A r \in 1..(MaxRounds - 1) :
          (currentRound = r /\ pc = "round") ~> (currentRound = r + 1 /\ pc = "reasoning")

\* C24 witness: the first round is over; it ran one reasoning step with
\* tools and ended with a response without tool_use, nothing was thrown.
C24_Witness ==
    /\ currentRound = 1
    /\ pc = "round"
    /\ lastError = Null
    /\ Len(conversationHistory) = 3

\* ------------------------------------------------------------------------
\* C25
\* ------------------------------------------------------------------------

\* processToolCall is called for a further block of the response
ActionStarts == Len(executed') > Len(executed)

\* a request goes out to the reasoning service or to the server
RequestGoesOut == Len(outstanding') > Len(outstanding)

\* C25: the agent never overlaps external round-trips.  At most one
\* external request of the agent is outstanding at any moment; a request
\* goes out only when none is outstanding; and an action is started only
\* when no request is outstanding and every action started before it in
\* the step has returned its result.
C25_OneRoundTripAtATime ==
    /\ [](Len(outstanding) <= 1)
    /\ [][ RequestGoesOut => outstanding = <<>> ]_vars
    /\ [][ ActionStarts =>
             /\ outstanding = <<>>
             /\ ResultIds(toolResults) = executed ]_vars

\* C25 witness: the second action of a reasoning step has its fetch in
\* flight, after the first action, which fetched too, has returned its
\* result.
C25_Witness ==
    /\ pc = "awaiting"
    /\ Len(executed) = 2
    /\ Len(toolResults) = 1
    /\ toolUseBlocks[1].name = "generate_ad_image"
    /\ ~IsErrorPayload(toolResults[1].content)
    /\ outstanding = <<FetchRequest(toolUseBlocks[2])>>

\* ------------------------------------------------------------------------
\* C26
\* ------------------------------------------------------------------------

\* C26: every cell held in the grid store is keyed by an integer coordinate
\* pair (x, y) with 0 <= x < 1000 and 0 <= y < 1000, whatever numbers the
\* paint and placement requests carried.
C26_IntegerKeys ==
    \A k \in DOMAIN canvas : IsGridCoordinate(k)

\* the keys of the grid store are pairs of numbers of the range, integer or
\* not
KeysInRange ==
    \A k \in DOMAIN canvas :
        /\ 0 <= k[1] /\ k[1] < CANVAS_WIDTH * Unit
        /\ 0 <= k[2] /\ k[2] < CANVAS_HEIGHT * Unit

\* ------------------------------------------------------------------------
\* C27
\* ------------------------------------------------------------------------

WriteRoutes == {"POST /pixel", "POST /ad", "POST /generate-image"}

\* the connections whose request is answered in this step, with a status
\* of `statuses`
AnsweredNow(statuses) ==
    {c \in DOMAIN inflight :
        /\ inflight[c].stage # "responded"
        /\ inflight'[c].stage = "responded"
        /\ inflight'[c].res.status \in statuses}

\* C27: a rejected request changes nothing.  The step that answers a paint,
\* placement or image-generation request with an error leaves the grid
\* store, the ledger, the image store and both counters as they were, and
\* so does every step of the server but the one that answers a request of
\* these routes with 200.
C27_RejectedChangesNothing ==
    /\ [][ (\E c \in AnsweredNow({400, 402, 500}) :
               inflight[c].req.route \in WriteRoutes) => UNCHANGED store ]_vars
    /\ [][ store' # store =>
             \E c \in AnsweredNow({200}) : inflight[c].req.route \in WriteRoutes ]_vars

\* C27 witness: with a painted cell, a placement and an image in the
\* stores, a request has been rejected by the validation or by a failed
\* image generation.
C27_Witness ==
    /\ canvas # <<>>
    /\ adPlacements # <<>>
    /\ \E c \in DOMAIN inflight :
          /\ inflight[c].stage = "responded"
          /\ inflight[c].req.route \in WriteRoutes
          /\ inflight[c].res.status \in {400, 500}

\* ------------------------------------------------------------------------
\* C28
\* ------------------------------------------------------------------------

\* the handle of every placement of the ledger is in the image store, and
\* GET /images/:id answers it with the image
HandlesResolve ==
    \A i \in 1..Len(adPlacements) :
        /\ adPlacements[i].imageId \in generatedImages
        /\ ImageFetch(adPlacements[i].imageId, generatedImages).status = 200

\* C28: in every reachable state the image handle of every placement of
\* the ledger resolves to a stored image: a placement is accepted only with
\* a handle of the image store, no step removes a stored image, and the
\* fetch by the handle never answers not-found.
C28_HandlesResolve ==
    /\ []HandlesResolve
    /\ [][ generatedImages \subseteq generatedImages' ]_vars
    /\ [][ \A c \in AnsweredNow({200}) :
              inflight[c].req.route = "POST /ad" =>
                  inflight[c].req.body.imageId \in generatedImages ]_vars

\* C28 witness: GET /images/:id has answered the handle of a placement of
\* the ledger with the image.
C28_Witness ==
    /\ adPlacements # <<>>
    /\ \E c \in DOMAIN inflight :
          /\ inflight[c].stage = "responded"
          /\ inflight[c].req.route = "GET /images"
          /\ inflight[c].req.body.id = adPlacements[1].imageId
          /\ inflight[c].res.status = 200

\* ------------------------------------------------------------------------
\* C29
\* ------------------------------------------------------------------------

\* the ad back-reference an entry of the snapshot reports
AdRefOf(entry) == IF "adId" \in DOMAIN entry THEN entry.adId ELSE Undefined

\* the snapshot lists the painted coordinates, each once
SnapshotListsPainted ==
    LET snapshot == CanvasSnapshot(canvas)
    IN /\ {Key(p.x.num, p.y.num) : p \in snapshot.pixels} = DOMAIN canvas
       /\ snapshot.totalPixels = Cardinality(DOMAIN canvas)

\* the snapshot's entry p and the single-cell query of its coordinate
\* report the same cell in `fields`
EntryAgrees(p, fields) ==
    LET q == PixelQuery(p.x, p.y, canvas)
    IN /\ q.status = 200
       /\ ~q.body.available
       /\ "color" \in fields => q.body.pixel.color = p.color
       /\ "owner" \in fields => q.body.pixel.owner = p.owner
       /\ "adId" \in fields =>
             /\ q.body.pixel.adId = AdRefOf(p)
             /\ (AdRefOf(p) # Undefined) <=>
                   (lastWrite[Key(p.x.num, p.y.num)].route = "POST /ad")

\* for the cells at integer coordinates the snapshot and the query report
\* the same color and owner
ColorAndOwnerAgree ==
    /\ SnapshotListsPainted
    /\ \A p \in CanvasSnapshot(canvas).pixels :
          IsGridCoordinate(Key(p.x.num, p.y.num)) => EntryAgrees(p, {"color", "owner"})

\* C29: the snapshot (GET /canvas) contains exactly the painted
\* coordinates, and for each of them reports the same color, owner and ad
\* back-reference as the single-cell query (GET /pixel/:x/:y); adId is
\* present exactly for the cells last written by a placement.
C29_SnapshotAgreesWithQuery ==
    /\ SnapshotListsPainted
    /\ \A p \in CanvasSnapshot(canvas).pixels :
          IsGridCoordinate(Key(p.x.num, p.y.num)) =>
              EntryAgrees(p, {"color", "owner", "adId"})

\* ------------------------------------------------------------------------
\* C30
\* ------------------------------------------------------------------------

\* the step in which place_ad returns
PlaceReturns ==
    /\ pc = "resumed"
    /\ pc' = "tools"
    /\ call.block.name = "place_ad"

PlaceSucceeds == PlaceReturns /\ call.response.kind = "ok"

\* the history entry of an ad placed in round `round`
EntryOf(ad, round) ==
    [brand |-> ad.brand.name, style |-> ad.style.name, size |-> ad.size.name,
     round |-> round]

\* the history gets one entry more, e
Appends(e) == placedAdsHistory' = Append(placedAdsHistory, e)

\* what the code does: a successful place_ad records the ad of the last
\* successful generate_ad_image, and nothing when there was none
RecordsLastGenerated ==
    [][ PlaceSucceeds =>
          IF lastGeneratedAd = Null
          THEN placedAdsHistory' = placedAdsHistory
          ELSE Appends(EntryOf(lastGeneratedAd, currentRound)) ]_vars

\* C30: every successful place_ad appends exactly one history entry with
\* the brand, style and size of the image handle that was placed and the
\* round of the placement; a failed place_ad appends none, and nothing else
\* changes the history.
C30_HistoryFaithful ==
    /\ [][ (PlaceSucceeds /\ call.block.input.imageId \in DOMAIN generatedAds) =>
             Appends(EntryOf(generatedAds[call.block.input.imageId], currentRound)) ]_vars
    /\ [][ (PlaceReturns /\ ~PlaceSucceeds) =>
             placedAdsHistory' = placedAdsHistory ]_vars
    /\ [][ placedAdsHistory' # placedAdsHistory => PlaceSucceeds ]_vars

====
